---- MODULE Spec2Model ----
(***************************************************************************)
(* Payment-required protocol handling of the PayStabl documentation code:  *)
(* server-side payment verification (replay guard), spending policy and    *)
(* the agent wallet contract, the retry / fallback workflow, the x402      *)
(* client handler, the research pipeline budget, the X-Payment codec, the  *)
(* 402 offer headers, the adaptive rate limiter, the approval workflow,    *)
(* one negotiation with its timeout, the replacement of a PolicySet during *)
(* evaluations, the SecureAgentWallet contract, the retrying payment       *)
(* helpers, the payment-attempt rate limit, the server middleware, the     *)
(* agent subscription and the marketplace escrow.                          *)
(* Each subsystem has its own variables, initial condition, actions and    *)
(* specification; the variables of the other subsystems stay at rest.      *)
(***************************************************************************)
EXTENDS Integers, Sequences, FiniteSets, TLC

VARIABLES
    \* SecurePaymentVerification (docs/reference/x402_headers.mdx)
    usedPayments,   \* receipts recorded by markPaymentUsed
    vpc,            \* position of each verifyPayment call
    vpayment,       \* the Payment argument of each call
    alreadyUsed,    \* the local alreadyUsed of each call
    vresult,        \* what each call returned or threw
    usedAtCall,     \* history: the receipts already recorded when each call arrived
    \* AgentWallet contract (docs/architecture.mdx) and PolicyEnforcement (docs/security.mdx)
    dailySpent,     \* mapping(address => uint256) dailySpent
    executedTotal,  \* sum of the amounts of the PaymentExecuted events emitted
    npc,            \* position of each negotiation of the agent
    ntransaction,   \* its Transaction: amount and recipient
    currentSpend,   \* the currentSpend.daily its checkSpendingLimits read
    validation,     \* the ValidationResult of its validateTransaction
    nfailing,       \* the checks without a body that failed in its validateTransaction
    noutcome,       \* how its executePayment transaction ended
    \* PaymentRetryWorkflow (docs/examples/langgraph_retry.mdx): the WorkflowState
    wnode,              \* the node of the compiled graph that runs next
    payment_attempts,   \* state["payment_attempts"]
    current_service,    \* state["current_service"]
    retry_count,        \* state["retry_count"]
    max_retries,        \* state["max_retries"]
    total_cost,         \* state["total_cost"]
    retry_strategy,     \* state["retry_strategy"]
    werror,             \* state["error"]
    completion_summary, \* state["completion_summary"]
    sleeps,             \* the delays passed to asyncio.sleep, in order
    switches,           \* how many times try_alternative or use_fallback ran
    \* X402Handler, client side (docs/reference/x402_headers.mdx)
    hpc,            \* position of handleX402Response
    hresponse,      \* the 402 response it was given
    hnow,           \* the time at which the response is handled
    paymentDetails, \* what parseX402Headers returned
    hprocessed,     \* the request processPayment was called with, if it was
    hresult,        \* what handleX402Response returned or threw
    \* X-Payment codec: X402Handler.formatPaymentHeader, X402Validator.parsePaymentHeader
    cpc,            \* position of the header's trip from client to verifier
    cpayment,       \* the PaymentResult the client formats
    xPayment,       \* the X-Payment header value sent
    parsedPayment,  \* the Payment the verifier parsed from it
    \* ResearchPipeline (agent-to-agent payment examples)
    project,        \* the project: budget, totalCost, phases
    phase,          \* the number of the phase being executed
    rpc,            \* position inside executeResearchProject / executePhase
    paidOut,        \* sum of the amounts of the pay_agent calls that succeeded
    rresult,        \* what executeResearchProject returned
    \* Dynamic pricing example of pay_api_endpoint
    dpc,            \* position in the example
    priceCheck,     \* the response to the price check: status and amount
    payCalled,      \* whether pay_api_endpoint was called
    dresult,        \* what came of the offer
    \* The 402 offer on the wire: x402Middleware to X402Handler.parseX402Headers
    opc,            \* position of the offer's trip from server to client
    offer,          \* the offer the middleware makes
    offerHeaders,   \* the headers of its 402 response
    offerDetails,   \* the PaymentDetails the client parsed from them
    \* AdaptiveRateLimiter (docs/security.mdx)
    limits,         \* this.limits: the RateLimit stored for each key
    lnow,           \* Date.now() at the latest call
    lkey,           \* the key of the latest call
    lresult,        \* the RateLimitResult of the latest call
    lcalls,         \* how many times checkAndUpdateLimit was called
    lallowed,       \* history: the calls allowed for each key, by fixed window
    \* Approval workflow of the PolicyEngine (docs/architecture.mdx)
    approval,       \* the approval request of each negotiation and its decision
    \* One negotiation of pay_api_endpoint / pay_agent with its timeout
    gstate,         \* the state of the negotiation
    gtimeout,       \* the timeout the caller supplied
    gelapsed,       \* the time waited for the call now pending
    greason,        \* the reason of a failure
    \* PolicyEngine.setPolicies beside PolicyEnforcement.validateTransaction
    storedPolicies, \* the PolicySet the engine holds for the agent
    upc,            \* position of each validateTransaction call
    upolicies,      \* const policies of each call
    ugiven,         \* the policies each check of each call was given
    \* SecureAgentWallet (docs/security.mdx)
    sw_dailySpent,  \* dailySpent of the secure wallet, per signer
    sw_lastResetTime, \* lastResetTime, per day
    sw_timestamp,   \* block.timestamp
    sw_sender,      \* msg.sender of the latest executeTransaction
    sw_value,       \* its value
    sw_outcome,     \* how it ended: TransactionExecuted, or the revert reason
    sw_spentToday,  \* history: what each signer's executed transactions of the current day sum to
    \* RobustPaymentHandler.handlePaymentWithRetry (docs/integrations/custom_frameworks.mdx)
    rh_pc,          \* position in handlePaymentWithRetry
    rh_maxAttempts, \* this.retryPolicy.maxAttempts
    rh_attempt,     \* the loop variable attempt
    rh_lastError,   \* lastError, by its code
    rh_delays,      \* the delays slept so far, in milliseconds
    \* robust_payment (docs/integrations/custom_frameworks.mdx) and robustPayAgent (docs/tools/pay_agent.mdx)
    rp_pc,          \* position of the robust_payment call
    rp_max_retries, \* its max_retries argument
    rp_attempt,     \* its loop variable attempt
    rp_calls,       \* history: the send_payment calls it made
    rpa_pc,         \* position of the robustPayAgent call
    rpa_calls,      \* history: the pay_agent calls it made, counted up to MaxCalls
    \* PaymentRateLimit (docs/reference/x402_headers.mdx)
    pr_attempts,    \* this.attempts, by client; 0 where the key is absent
    pr_timers,      \* the pending setTimeout callbacks of each client, by the time they were set
    pr_now,         \* the clock, in half hours
    pr_result,      \* what the last checkRateLimit returned
    pr_allowed,     \* history: the attempts of each client that were allowed, by time
    \* x402Middleware with X402Validator (docs/reference/x402_headers.mdx)
    mw_pc,          \* position of the middleware for one request
    mw_paymentHeader, \* req.headers['x-payment'], or null
    mw_result,      \* the ValidationResult of validatePaymentHeader
    mw_response,    \* the response sent: status, headers set, code of the body
    mw_next,        \* whether next() was called
    \* AgentSubscription (docs/tools/pay_agent.mdx)
    sub_isActive,   \* this.isActive
    sub_timers,     \* the pending setTimeout callbacks, by the time they are due
    sub_timeout,    \* the time this.timeout is due while it is pending, else -1
    sub_inflight,   \* the pay_agent calls awaited
    sub_now,        \* the clock, in intervals
    sub_starts,     \* how many times start() was called
    sub_initiated,  \* history: the payments initiated, by time
    sub_skipped,    \* history: the makePayment calls that returned at once
    \* AgentMarketplace (unnamed/part_005)
    mk_contract,    \* the contract in this.activeContracts, if any
    mk_escrowCollected, \* what the client has paid the marketplace as escrow
    mk_paidOut,     \* what the marketplace has paid the provider
    mk_releases,    \* history: the payments made for each milestone
    mk_last,        \* the latest releaseMilestonePayment: its arguments and how it ended
    mk_calls        \* how many times releaseMilestonePayment was called

verifyVars == <<usedPayments, vpc, vpayment, alreadyUsed, vresult, usedAtCall>>
policyVars == <<dailySpent, executedTotal, npc, ntransaction, currentSpend, validation,
                nfailing, noutcome>>

retryVars == <<wnode, payment_attempts, current_service, retry_count, max_retries,
               total_cost, retry_strategy, werror, completion_summary, sleeps, switches>>

handlerVars == <<hpc, hresponse, hnow, paymentDetails, hprocessed, hresult>>
codecVars == <<cpc, cpayment, xPayment, parsedPayment>>

pipelineVars == <<project, phase, rpc, paidOut, rresult>>
pricingVars == <<dpc, priceCheck, payCalled, dresult>>
offerVars == <<opc, offer, offerHeaders, offerDetails>>
limiterVars == <<limits, lnow, lkey, lresult, lcalls, lallowed>>
approvalVars == <<approval>>
negotiationVars == <<gstate, gtimeout, gelapsed, greason>>

updateVars == <<storedPolicies, upc, upolicies, ugiven>>

secureVars == <<sw_dailySpent, sw_lastResetTime, sw_timestamp, sw_sender, sw_value, sw_outcome, sw_spentToday>>

robustVars == <<rh_pc, rh_maxAttempts, rh_attempt, rh_lastError, rh_delays>>

cappedVars == <<rp_pc, rp_max_retries, rp_attempt, rp_calls, rpa_pc, rpa_calls>>

attemptsVars == <<pr_attempts, pr_timers, pr_now, pr_result, pr_allowed>>

middlewareVars == <<mw_pc, mw_paymentHeader, mw_result, mw_response, mw_next>>

subscriptionVars == <<sub_isActive, sub_timers, sub_timeout, sub_inflight, sub_now, sub_starts, sub_initiated, sub_skipped>>

marketplaceVars == <<mk_contract, mk_escrowCollected, mk_paidOut, mk_releases, mk_last, mk_calls>>

vars == <<verifyVars, policyVars, retryVars, handlerVars, codecVars, pipelineVars,
          pricingVars, offerVars, limiterVars, approvalVars, negotiationVars,
          updateVars,
          secureVars,
          robustVars,
          cappedVars,
          attemptsVars,
          middlewareVars,
          subscriptionVars,
          marketplaceVars>>

\* What the actions of one subsystem leave alone: the other subsystems.
notVerify ==
    <<policyVars, retryVars, handlerVars, codecVars, pipelineVars, pricingVars,
      offerVars, limiterVars, approvalVars, negotiationVars,
      updateVars,
      secureVars,
      robustVars,
      cappedVars,
      attemptsVars,
      middlewareVars,
      subscriptionVars,
      marketplaceVars>>
notPolicy ==
    <<verifyVars, retryVars, handlerVars, codecVars, pipelineVars, pricingVars,
      offerVars, limiterVars, approvalVars, negotiationVars,
      updateVars,
      secureVars,
      robustVars,
      cappedVars,
      attemptsVars,
      middlewareVars,
      subscriptionVars,
      marketplaceVars>>
notRetry ==
    <<verifyVars, policyVars, handlerVars, codecVars, pipelineVars, pricingVars,
      offerVars, limiterVars, approvalVars, negotiationVars,
      updateVars,
      secureVars,
      robustVars,
      cappedVars,
      attemptsVars,
      middlewareVars,
      subscriptionVars,
      marketplaceVars>>
notHandler ==
    <<verifyVars, policyVars, retryVars, codecVars, pipelineVars, pricingVars,
      offerVars, limiterVars, approvalVars, negotiationVars,
      updateVars,
      secureVars,
      robustVars,
      cappedVars,
      attemptsVars,
      middlewareVars,
      subscriptionVars,
      marketplaceVars>>
notCodec ==
    <<verifyVars, policyVars, retryVars, handlerVars, pipelineVars, pricingVars,
      offerVars, limiterVars, approvalVars, negotiationVars,
      updateVars,
      secureVars,
      robustVars,
      cappedVars,
      attemptsVars,
      middlewareVars,
      subscriptionVars,
      marketplaceVars>>
notPipeline ==
    <<verifyVars, policyVars, retryVars, handlerVars, codecVars, pricingVars,
      offerVars, limiterVars, approvalVars, negotiationVars,
      updateVars,
      secureVars,
      robustVars,
      cappedVars,
      attemptsVars,
      middlewareVars,
      subscriptionVars,
      marketplaceVars>>
notPricing ==
    <<verifyVars, policyVars, retryVars, handlerVars, codecVars, pipelineVars,
      offerVars, limiterVars, approvalVars, negotiationVars,
      updateVars,
      secureVars,
      robustVars,
      cappedVars,
      attemptsVars,
      middlewareVars,
      subscriptionVars,
      marketplaceVars>>
notOffer ==
    <<verifyVars, policyVars, retryVars, handlerVars, codecVars, pipelineVars,
      pricingVars, limiterVars, approvalVars, negotiationVars,
      updateVars,
      secureVars,
      robustVars,
      cappedVars,
      attemptsVars,
      middlewareVars,
      subscriptionVars,
      marketplaceVars>>
notLimiter ==
    <<verifyVars, policyVars, retryVars, handlerVars, codecVars, pipelineVars,
      pricingVars, offerVars, approvalVars, negotiationVars,
      updateVars,
      secureVars,
      robustVars,
      cappedVars,
      attemptsVars,
      middlewareVars,
      subscriptionVars,
      marketplaceVars>>
notApproval ==
    <<verifyVars, retryVars, handlerVars, codecVars, pipelineVars, pricingVars,
      offerVars, limiterVars, negotiationVars,
      updateVars,
      secureVars,
      robustVars,
      cappedVars,
      attemptsVars,
      middlewareVars,
      subscriptionVars,
      marketplaceVars>>
notNegotiation ==
    <<verifyVars, policyVars, retryVars, handlerVars, codecVars, pipelineVars,
      pricingVars, offerVars, limiterVars, approvalVars,
      updateVars,
      secureVars,
      robustVars,
      cappedVars,
      attemptsVars,
      middlewareVars,
      subscriptionVars,
      marketplaceVars>>
notUpdate ==
    <<verifyVars, policyVars, retryVars, handlerVars, codecVars, pipelineVars,
      pricingVars, offerVars, limiterVars, approvalVars, negotiationVars,
      secureVars,
      robustVars,
      cappedVars,
      attemptsVars,
      middlewareVars,
      subscriptionVars,
      marketplaceVars>>
notSecure ==
    <<verifyVars, policyVars, retryVars, handlerVars, codecVars, pipelineVars,
      pricingVars, offerVars, limiterVars, approvalVars, negotiationVars, updateVars,
      robustVars,
      cappedVars,
      attemptsVars,
      middlewareVars,
      subscriptionVars,
      marketplaceVars>>
notRobust ==
    <<verifyVars, policyVars, retryVars, handlerVars, codecVars, pipelineVars,
      pricingVars, offerVars, limiterVars, approvalVars, negotiationVars, updateVars,
      secureVars,
      cappedVars,
      attemptsVars,
      middlewareVars,
      subscriptionVars,
      marketplaceVars>>
notCapped ==
    <<verifyVars, policyVars, retryVars, handlerVars, codecVars, pipelineVars,
      pricingVars, offerVars, limiterVars, approvalVars, negotiationVars, updateVars,
      secureVars, robustVars,
      attemptsVars,
      middlewareVars,
      subscriptionVars,
      marketplaceVars>>
notAttempts ==
    <<verifyVars, policyVars, retryVars, handlerVars, codecVars, pipelineVars,
      pricingVars, offerVars, limiterVars, approvalVars, negotiationVars, updateVars,
      secureVars, robustVars, cappedVars,
      middlewareVars,
      subscriptionVars,
      marketplaceVars>>
notMiddleware ==
    <<verifyVars, policyVars, retryVars, handlerVars, codecVars, pipelineVars,
      pricingVars, offerVars, limiterVars, approvalVars, negotiationVars, updateVars,
      secureVars, robustVars, cappedVars, attemptsVars,
      subscriptionVars,
      marketplaceVars>>
notSubscription ==
    <<verifyVars, policyVars, retryVars, handlerVars, codecVars, pipelineVars,
      pricingVars, offerVars, limiterVars, approvalVars, negotiationVars, updateVars,
      secureVars, robustVars, cappedVars, attemptsVars, middlewareVars,
      marketplaceVars>>
notMarketplace ==
    <<verifyVars, policyVars, retryVars, handlerVars, codecVars, pipelineVars,
      pricingVars, offerVars, limiterVars, approvalVars, negotiationVars, updateVars,
      secureVars, robustVars, cappedVars, attemptsVars, middlewareVars,
      subscriptionVars>>

(***************************************************************************)
(* SecurePaymentVerification.verifyPayment                                 *)
(***************************************************************************)

\* Number of verifyPayment calls in flight at the same time.
NumVerifiers == 2

Verifiers == 1..NumVerifiers

\* this.requiredAmount and this.paymentAddress of the verifying server.
requiredAmount == 2
paymentAddress == "merchant"

\* The transactions a receipt can name: what verifyTransactionExists and
\* getTransactionDetails report for it.
Receipts == {"tx_a", "tx_b", "tx_low", "tx_wrong", "tx_none"}

verifyTransactionExists(receipt) == receipt # "tx_none"

getTransactionDetails(receipt) ==
    [amount    |-> IF receipt = "tx_low" THEN requiredAmount - 1 ELSE requiredAmount,
     recipient |-> IF receipt = "tx_wrong" THEN "other" ELSE paymentAddress]

\* A Payment as presented in an X-Payment header; signatureValid is what
\* verifySignature answers for it.
Payments == [receipt : Receipts, signatureValid : BOOLEAN]

NoPayment == [receipt |-> "none", signatureValid |-> FALSE]

\* checkPaymentUsed answering that no payment was used.
checkPaymentUsed_never(receipt) == FALSE

checkPaymentUsed(receipt) == receipt \in usedPayments

VerifyIdle ==
    /\ usedPayments = {}
    /\ vpc = [p \in Verifiers |-> "idle"]
    /\ vpayment = [p \in Verifiers |-> NoPayment]
    /\ alreadyUsed = [p \in Verifiers |-> FALSE]
    /\ vresult = [p \in Verifiers |-> "none"]
    /\ usedAtCall = [p \in Verifiers |-> {}]

\* return / throw of one call
VerifyEnd(p, outcome) ==
    /\ vpc' = [vpc EXCEPT ![p] = "returned"]
    /\ vresult' = [vresult EXCEPT ![p] = outcome]

\* A request carrying an X-Payment header arrives: verifyPayment(payment) is called.
VerifyPaymentCall(p) ==
    /\ vpc[p] = "idle"
    /\ \E payment \in Payments : vpayment' = [vpayment EXCEPT ![p] = payment]
    /\ vpc' = [vpc EXCEPT ![p] = "verifySignature"]
    /\ usedAtCall' = [usedAtCall EXCEPT ![p] = usedPayments]
    /\ UNCHANGED <<usedPayments, alreadyUsed, vresult>>
    /\ UNCHANGED notVerify

\* const signatureValid = await this.verifySignature(payment)
VerifySignatureStep(p) ==
    /\ vpc[p] = "verifySignature"
    /\ IF vpayment[p].signatureValid
          THEN vpc' = [vpc EXCEPT ![p] = "verifyTransactionExists"] /\ UNCHANGED vresult
          ELSE VerifyEnd(p, "Invalid payment signature")
    /\ UNCHANGED <<usedPayments, vpayment, alreadyUsed, usedAtCall>>
    /\ UNCHANGED notVerify

\* const txExists = await this.verifyTransactionExists(payment.receipt)
VerifyTransactionExistsStep(p) ==
    /\ vpc[p] = "verifyTransactionExists"
    /\ IF verifyTransactionExists(vpayment[p].receipt)
          THEN vpc' = [vpc EXCEPT ![p] = "getTransactionDetails"] /\ UNCHANGED vresult
          ELSE VerifyEnd(p, "Payment transaction not found")
    /\ UNCHANGED <<usedPayments, vpayment, alreadyUsed, usedAtCall>>
    /\ UNCHANGED notVerify

\* const txDetails = await this.getTransactionDetails(...), amount and recipient checks
GetTransactionDetailsStep(p) ==
    /\ vpc[p] = "getTransactionDetails"
    /\ LET txDetails == getTransactionDetails(vpayment[p].receipt) IN
         IF txDetails.amount < requiredAmount
            THEN VerifyEnd(p, "Insufficient payment amount")
            ELSE IF txDetails.recipient # paymentAddress
                    THEN VerifyEnd(p, "Payment sent to wrong address")
                    ELSE vpc' = [vpc EXCEPT ![p] = "checkPaymentUsed"] /\ UNCHANGED vresult
    /\ UNCHANGED <<usedPayments, vpayment, alreadyUsed, usedAtCall>>
    /\ UNCHANGED notVerify

\* const alreadyUsed = await this.checkPaymentUsed(payment.receipt)
CheckPaymentUsedStep(p) ==
    /\ vpc[p] = "checkPaymentUsed"
    /\ alreadyUsed' = [alreadyUsed EXCEPT ![p] = checkPaymentUsed(vpayment[p].receipt)]
    /\ vpc' = [vpc EXCEPT ![p] = "checked"]
    /\ UNCHANGED <<usedPayments, vpayment, vresult, usedAtCall>>
    /\ UNCHANGED notVerify

\* if (alreadyUsed) throw new Error('Payment already consumed')
ThrowAlreadyConsumed(p) ==
    /\ vpc[p] = "checked"
    /\ alreadyUsed[p]
    /\ VerifyEnd(p, "Payment already consumed")
    /\ UNCHANGED <<usedPayments, vpayment, alreadyUsed, usedAtCall>>
    /\ UNCHANGED notVerify

\* await this.markPaymentUsed(payment.receipt); return { valid: true, ... }
MarkPaymentUsedStep(p) ==
    /\ vpc[p] = "checked"
    /\ ~alreadyUsed[p]
    /\ usedPayments' = usedPayments \cup {vpayment[p].receipt}
    /\ VerifyEnd(p, "valid")
    /\ UNCHANGED <<vpayment, alreadyUsed, usedAtCall>>
    /\ UNCHANGED notVerify

(***************************************************************************)
(* Spending policy: PolicyEnforcement.validateTransaction off chain, then  *)
(* the AgentWallet contract's executePayment on chain (API payment flow:   *)
(* "Validate policies", then "Process payment transaction").               *)
(***************************************************************************)

\* Number of negotiations of the one agent that may be in flight together.
NumNegotiations == 2

Negotiations == 1..NumNegotiations

\* address public agent
agent == "agent"

\* The configured limits of the agent: policies.dailyLimit, which is also
\* dailyLimits[agent] of its wallet, and policies.perTransactionLimit. Amounts
\* and limits are far below 2^256, so the contract's uint256 sums do not wrap.
dailyLimit == 10
perTransactionLimit == 6

dailyLimits == [a \in {agent} |-> dailyLimit]

\* mapping(address => bool) allowlist
Recipients == {"merchant", "unlisted"}
allowlist == [r \in Recipients |-> r = "merchant"]

Amounts == {4, 6, 9}

Transactions == [amount : Amounts, recipient : Recipients]

NoTransaction == [amount |-> 0, recipient |-> "none"]

\* The checks of validateTransaction whose bodies the documentation does not
\* give (checkTimeRestrictions, checkVelocityLimits, checkSuspiciousActivity):
\* each either passes or fails with its own error.
OtherChecks == {"time", "velocity", "suspicious"}

NoValidation == [valid |-> FALSE, errors |-> {}, requiresApproval |-> FALSE]

\* checkSpendingLimits with the daily check forgetting what was already spent.
checkSpendingLimits_ignoresSpend(spendDaily, amount) ==
    IF amount > perTransactionLimit
       THEN [valid |-> FALSE, error |-> "Transaction exceeds per-transaction limit",
             requiresApproval |-> TRUE]
       ELSE IF amount > dailyLimit
               THEN [valid |-> FALSE, error |-> "Transaction would exceed daily limit",
                     requiresApproval |-> FALSE]
               ELSE [valid |-> TRUE, error |-> "none", requiresApproval |-> FALSE]

\* checkSpendingLimits asking for approval from the per-transaction limit on
\* (>= for >).
checkSpendingLimits_atLimit(spendDaily, amount) ==
    IF amount >= perTransactionLimit
       THEN [valid |-> FALSE, error |-> "Transaction exceeds per-transaction limit",
             requiresApproval |-> TRUE]
       ELSE IF spendDaily + amount > dailyLimit
               THEN [valid |-> FALSE, error |-> "Transaction would exceed daily limit",
                     requiresApproval |-> FALSE]
               ELSE [valid |-> TRUE, error |-> "none", requiresApproval |-> FALSE]

\* PolicyEnforcement.checkSpendingLimits(agentId, amount, policies) with
\* currentSpend = await getCurrentSpending(agentId)
checkSpendingLimits(spendDaily, amount) ==
    IF amount > perTransactionLimit
       THEN [valid |-> FALSE, error |-> "Transaction exceeds per-transaction limit",
             requiresApproval |-> TRUE]
       ELSE IF spendDaily + amount > dailyLimit
               THEN [valid |-> FALSE, error |-> "Transaction would exceed daily limit",
                     requiresApproval |-> FALSE]
               ELSE [valid |-> TRUE, error |-> "none", requiresApproval |-> FALSE]

\* One of the checks without a body: fails exactly when the environment says so.
otherCheck(name, failing) ==
    IF name \in failing
       THEN [valid |-> FALSE, error |-> name, requiresApproval |-> FALSE]
       ELSE [valid |-> TRUE, error |-> "none", requiresApproval |-> FALSE]

\* validateTransaction stopping at the first failed check.
validateTransaction_firstFailure(spendDaily, transaction, failing) ==
    LET spending == checkSpendingLimits(spendDaily, transaction.amount)
        first == IF ~spending.valid THEN spending
                 ELSE IF "time" \in failing THEN otherCheck("time", failing)
                 ELSE IF "velocity" \in failing THEN otherCheck("velocity", failing)
                 ELSE otherCheck("suspicious", failing)
    IN  [valid            |-> first.valid,
         errors           |-> IF first.valid THEN {} ELSE {first.error},
         requiresApproval |-> first.requiresApproval]

\* PolicyEnforcement.validateTransaction: all checks, then the failed ones collected.
validateTransaction(spendDaily, transaction, failing) ==
    LET validations == {checkSpendingLimits(spendDaily, transaction.amount)}
                         \cup {otherCheck(c, failing) : c \in OtherChecks}
        failed == {v \in validations : ~v.valid}
    IN  [valid            |-> failed = {},
         errors           |-> {f.error : f \in failed},
         requiresApproval |-> \E f \in failed : f.requiresApproval]

\* executePayment declared without the withinLimits modifier.
withinLimits_missing(sender, amount) == TRUE

\* modifier withinLimits(amount)
withinLimits(sender, amount) == dailySpent[sender] + amount <= dailyLimits[sender]

\* modifier onlyAgent
onlyAgent(sender) == sender = agent

PolicyIdle ==
    /\ dailySpent = [a \in {agent} |-> 0]
    /\ executedTotal = 0
    /\ npc = [n \in Negotiations |-> "idle"]
    /\ ntransaction = [n \in Negotiations |-> NoTransaction]
    /\ currentSpend = [n \in Negotiations |-> 0]
    /\ validation = [n \in Negotiations |-> NoValidation]
    /\ nfailing = [n \in Negotiations |-> {}]
    /\ noutcome = [n \in Negotiations |-> "none"]

\* The agent asks for a payment: "Request payment authorization".
RequestPayment(n) ==
    /\ npc[n] = "idle"
    /\ \E t \in Transactions : ntransaction' = [ntransaction EXCEPT ![n] = t]
    /\ npc' = [npc EXCEPT ![n] = "validateTransaction"]
    /\ UNCHANGED <<dailySpent, executedTotal, currentSpend, validation, nfailing, noutcome>>
    /\ UNCHANGED notPolicy

\* validateTransaction: getCurrentSpending is read (the spend committed so far,
\* dailySpent) and the checks are evaluated; nothing is written.
ValidateTransactionStep(n) ==
    /\ npc[n] = "validateTransaction"
    /\ \E failing \in SUBSET OtherChecks :
         LET result == validateTransaction(dailySpent[agent], ntransaction[n], failing) IN
           /\ validation' = [validation EXCEPT ![n] = result]
           /\ nfailing' = [nfailing EXCEPT ![n] = failing]
           /\ npc' = [npc EXCEPT ![n] = IF result.valid THEN "executePayment" ELSE "denied"]
    /\ currentSpend' = [currentSpend EXCEPT ![n] = dailySpent[agent]]
    /\ UNCHANGED <<dailySpent, executedTotal, ntransaction, noutcome>>
    /\ UNCHANGED notPolicy

\* AgentWallet.executePayment(recipient, amount, data) sent by the agent: one
\* transaction, which either runs to the PaymentExecuted event or reverts whole.
ExecutePayment(n) ==
    /\ npc[n] = "executePayment"
    /\ LET amount == ntransaction[n].amount
           recipient == ntransaction[n].recipient
       IN \E success \in BOOLEAN :
            LET revert == IF ~onlyAgent(agent) THEN "Only agent can execute"
                          ELSE IF ~withinLimits(agent, amount) THEN "Daily limit exceeded"
                          ELSE IF ~allowlist[recipient] THEN "Recipient not allowed"
                          ELSE IF ~success THEN "Payment failed"
                          ELSE "none"
            IN IF revert = "none"
                  THEN /\ dailySpent' = [dailySpent EXCEPT ![agent] = @ + amount]
                       /\ executedTotal' = executedTotal + amount
                       /\ noutcome' = [noutcome EXCEPT ![n] = "PaymentExecuted"]
                  ELSE /\ UNCHANGED <<dailySpent, executedTotal>>
                       /\ noutcome' = [noutcome EXCEPT ![n] = revert]
    /\ npc' = [npc EXCEPT ![n] = "done"]
    /\ UNCHANGED <<ntransaction, currentSpend, validation, nfailing>>
    /\ UNCHANGED notPolicy


(***************************************************************************)
(* Approval workflow: PolicyEngine.requestApproval and processApproval,    *)
(* for a validation result with requiresApproval.                          *)
(***************************************************************************)

ApprovalIdle == approval = [n \in Negotiations |-> "none"]

\* requestApproval(transaction): the negotiation whose validation asked for
\* approval waits for the decision.
RequestApproval(n) ==
    /\ npc[n] = "denied"
    /\ validation[n].requiresApproval
    /\ approval[n] = "none"
    /\ approval' = [approval EXCEPT ![n] = "pending"]
    /\ npc' = [npc EXCEPT ![n] = "awaiting_approval"]
    /\ UNCHANGED <<dailySpent, executedTotal, ntransaction, currentSpend, validation,
                   nfailing, noutcome>>
    /\ UNCHANGED notApproval

\* processApproval(requestId, decision): granted, the transaction goes on to
\* executePayment; refused, it is denied for good.
ProcessApproval(n) ==
    /\ npc[n] = "awaiting_approval"
    /\ \E decision \in BOOLEAN :
         /\ approval' = [approval EXCEPT ![n] = IF decision THEN "granted" ELSE "refused"]
         /\ npc' = [npc EXCEPT ![n] = IF decision THEN "executePayment" ELSE "denied"]
    /\ UNCHANGED <<dailySpent, executedTotal, ntransaction, currentSpend, validation,
                   nfailing, noutcome>>
    /\ UNCHANGED notApproval

(***************************************************************************)
(* PaymentRetryWorkflow: the compiled graph of build_workflow, one action  *)
(* per node; the conditional edges are the routing operators.              *)
(***************************************************************************)

\* The most entries payment_attempts may hold before a further attempt is made.
MaxLog == 8

\* state["max_retries"] = 5
MaxRetries == 5

\* state["fallback_services"], expensive to cheap
fallback_services ==
    <<"premium_ai_service", "standard_ai_service", "basic_ai_service", "free_service">>

\* get_service_config(service_name)["cost"], in dollars
service_cost(service_name) ==
    CASE service_name = "premium_ai_service"  -> 10
      [] service_name = "standard_ai_service" -> 5
      [] service_name = "basic_ai_service"    -> 2
      [] OTHER                                -> 0

\* fallback_services.index(service)
service_index(service) ==
    CHOOSE i \in 1..Len(fallback_services) : fallback_services[i] = service

\* getattr(error, 'code', 'UNKNOWN') of the errors pay_api_endpoint or the free
\* service call can raise: the codes handle_payment_failure names, UNKNOWN for an
\* error without a code, and codes of the payment protocol it does not name.
ErrorCodes ==
    {"INSUFFICIENT_FUNDS", "NETWORK_ERROR", "API_UNAVAILABLE", "RATE_LIMITED", "UNKNOWN",
     "POLICY_VIOLATION", "ALREADY_USED", "INVALID_FORMAT", "PAYMENT_EXPIRED"}

LastAttempt == payment_attempts[Len(payment_attempts)]

Pow2(n) == 2 ^ n

Min(a, b) == IF a < b THEN a ELSE b

RetryIdle ==
    /\ wnode = "validate_request"
    /\ payment_attempts = <<>>
    /\ current_service = "none"
    /\ retry_count = 0
    /\ max_retries = 0
    /\ total_cost = 0
    /\ retry_strategy = "none"
    /\ werror = "none"
    /\ completion_summary = [success |-> FALSE, attempts |-> 0, final_error |-> "none"]
    /\ sleeps = <<>>
    /\ switches = 0

\* route_payment_result allowing one retry too many (<= for <).
route_payment_result_offByOne(last_attempt, count, maxr) ==
    IF last_attempt.status = "success" THEN "complete_task"
    ELSE IF count <= maxr THEN "handle_failure"
    ELSE "final_failure"

\* route_payment_result with "retry" wired straight back to attempt_payment.
route_payment_result_retriesItself(last_attempt, count, maxr) ==
    IF last_attempt.status = "success" THEN "complete_task"
    ELSE IF count < maxr THEN "attempt_payment"
    ELSE "final_failure"

\* route_payment_result with the test of the status inverted.
route_payment_result_inverted(last_attempt, count, maxr) ==
    IF last_attempt.status # "success" THEN "complete_task"
    ELSE IF count < maxr THEN "handle_failure"
    ELSE "final_failure"

\* route_payment_result testing for a status attempt_payment never writes.
route_payment_result_wrongStatus(last_attempt, count, maxr) ==
    IF last_attempt.status = "completed" THEN "complete_task"
    ELSE IF count < maxr THEN "handle_failure"
    ELSE "final_failure"

\* route_payment_result(state), for the state attempt_payment returns
route_payment_result(last_attempt, count, maxr) ==
    IF last_attempt.status = "success" THEN "complete_task"
    ELSE IF count < maxr THEN "handle_failure"
    ELSE "final_failure"

\* handle_payment_failure answering a rate limit with exponential backoff.
strategy_for_rateLimitedExponential(error_code) ==
    CASE error_code = "INSUFFICIENT_FUNDS" -> "ALTERNATIVE_SERVICE"
      [] error_code = "NETWORK_ERROR"      -> "EXPONENTIAL_BACKOFF"
      [] error_code = "API_UNAVAILABLE"    -> "ALTERNATIVE_SERVICE"
      [] error_code = "RATE_LIMITED"       -> "EXPONENTIAL_BACKOFF"
      [] OTHER                             -> "ALTERNATIVE_SERVICE"

\* handle_payment_failure: the strategy chosen for an error code
strategy_for(error_code) ==
    CASE error_code = "INSUFFICIENT_FUNDS" -> "ALTERNATIVE_SERVICE"
      [] error_code = "NETWORK_ERROR"      -> "EXPONENTIAL_BACKOFF"
      [] error_code = "API_UNAVAILABLE"    -> "ALTERNATIVE_SERVICE"
      [] error_code = "RATE_LIMITED"       -> "LINEAR_BACKOFF"
      [] OTHER                             -> "ALTERNATIVE_SERVICE"

\* route_failure_handling sending every alternative-service failure straight to
\* the final fallback.
route_failure_handling_straightToFallback(strategy, service) ==
    IF strategy = "EXPONENTIAL_BACKOFF" THEN "retry_with_backoff"
    ELSE IF strategy = "LINEAR_BACKOFF" THEN "retry_with_backoff"
    ELSE IF strategy = "ALTERNATIVE_SERVICE" THEN "use_fallback"
    ELSE "final_failure"

\* route_failure_handling(state)
route_failure_handling(strategy, service) ==
    IF strategy = "EXPONENTIAL_BACKOFF" THEN "retry_with_backoff"
    ELSE IF strategy = "LINEAR_BACKOFF" THEN "retry_with_backoff"
    ELSE IF strategy = "ALTERNATIVE_SERVICE"
         THEN IF service_index(service) < Len(fallback_services)
                 THEN "try_alternative"
                 ELSE "use_fallback"
    ELSE "final_failure"

validate_request ==
    /\ wnode = "validate_request"
    /\ payment_attempts' = <<>>
    /\ retry_count' = 0
    /\ max_retries' = MaxRetries
    /\ total_cost' = 0
    /\ current_service' = fallback_services[1]
    /\ wnode' = "attempt_payment"
    /\ UNCHANGED <<retry_strategy, werror, completion_summary, sleeps, switches>>
    /\ UNCHANGED notRetry

\* attempt_payment: the free service call or pay_api_endpoint returns ("success")
\* or raises an error with a code; the attempt is appended either way.
attempt_payment ==
    /\ wnode = "attempt_payment"
    /\ Len(payment_attempts) < MaxLog
    /\ \E outcome \in {"success"} \cup ErrorCodes :
         LET cost == service_cost(current_service)
             attempt_info ==
                 [type       |-> "attempt",
                  attempt    |-> retry_count + 1,
                  service    |-> current_service,
                  amount     |-> cost,
                  status     |-> IF outcome = "success" THEN "success" ELSE "failed",
                  error_code |-> IF outcome = "success" THEN "none" ELSE outcome,
                  tx_hash    |-> IF outcome = "success" /\ cost # 0
                                    THEN "receipt.txHash" ELSE "none",
                  method     |-> IF outcome # "success" THEN "none"
                                 ELSE IF cost = 0 THEN "free_service"
                                 ELSE "paystabl_payment"]
         IN /\ payment_attempts' = Append(payment_attempts, attempt_info)
            /\ total_cost' = IF outcome = "success" /\ cost # 0
                                THEN total_cost + cost ELSE total_cost
            /\ werror' = IF outcome = "success" THEN werror ELSE outcome
            /\ wnode' = route_payment_result(attempt_info, retry_count, max_retries)
    /\ UNCHANGED <<current_service, retry_count, max_retries, retry_strategy,
                   completion_summary, sleeps, switches>>
    /\ UNCHANGED notRetry

handle_payment_failure ==
    /\ wnode = "handle_failure"
    /\ LET strategy == strategy_for(LastAttempt.error_code) IN
         /\ retry_strategy' = strategy
         /\ wnode' = route_failure_handling(strategy, current_service)
    /\ UNCHANGED <<payment_attempts, current_service, retry_count, max_retries, total_cost,
                   werror, completion_summary, sleeps, switches>>
    /\ UNCHANGED notRetry

\* The seconds retry_with_backoff sleeps, for the strategy and the retry count it
\* has just incremented: min(delay, 60).
backoff_delay(strategy, count) ==
    LET delay == IF strategy = "EXPONENTIAL_BACKOFF" THEN Pow2(count)
                 ELSE IF strategy = "LINEAR_BACKOFF" THEN count * 5
                 ELSE 1
    IN Min(delay, 60)

retry_with_backoff ==
    /\ wnode = "retry_with_backoff"
    /\ retry_count' = retry_count + 1
    /\ sleeps' = Append(sleeps, backoff_delay(retry_strategy, retry_count + 1))
    /\ wnode' = "attempt_payment"
    /\ UNCHANGED <<payment_attempts, current_service, max_retries, total_cost,
                   retry_strategy, werror, completion_summary, switches>>
    /\ UNCHANGED notRetry

\* try_alternative_service without the service_switch entry.
try_alternative_service_unlogged ==
    /\ wnode = "try_alternative"
    /\ LET next_index == service_index(current_service) + 1 IN
         IF next_index <= Len(fallback_services)
            THEN /\ current_service' = fallback_services[next_index]
                 /\ retry_count' = 0
                 /\ UNCHANGED werror
            ELSE /\ werror' = "All services exhausted"
                 /\ UNCHANGED <<current_service, retry_count>>
    /\ switches' = switches + 1
    /\ wnode' = "attempt_payment"
    /\ UNCHANGED <<payment_attempts, max_retries, total_cost, retry_strategy,
                   completion_summary, sleeps>>
    /\ UNCHANGED notRetry

try_alternative_service ==
    /\ wnode = "try_alternative"
    /\ LET next_index == service_index(current_service) + 1 IN
         IF next_index <= Len(fallback_services)
            THEN /\ current_service' = fallback_services[next_index]
                 /\ retry_count' = 0
                 /\ payment_attempts' =
                        Append(payment_attempts,
                               [type |-> "service_switch", from |-> current_service,
                                to |-> fallback_services[next_index],
                                reason |-> "payment_failure"])
                 /\ UNCHANGED werror
            ELSE /\ werror' = "All services exhausted"
                 /\ UNCHANGED <<current_service, retry_count, payment_attempts>>
    /\ switches' = switches + 1
    /\ wnode' = "attempt_payment"
    /\ UNCHANGED <<max_retries, total_cost, retry_strategy, completion_summary, sleeps>>
    /\ UNCHANGED notRetry

use_fallback_service ==
    /\ wnode = "use_fallback"
    /\ current_service' = fallback_services[Len(fallback_services)]
    /\ retry_count' = 0
    /\ switches' = switches + 1
    /\ wnode' = "attempt_payment"
    /\ UNCHANGED <<payment_attempts, max_retries, total_cost, retry_strategy, werror,
                   completion_summary, sleeps>>
    /\ UNCHANGED notRetry

complete_task ==
    /\ wnode = "complete_task"
    /\ completion_summary' = [success |-> TRUE, attempts |-> Len(payment_attempts),
                              final_error |-> "none"]
    /\ wnode' = "END"
    /\ UNCHANGED <<payment_attempts, current_service, retry_count, max_retries, total_cost,
                   retry_strategy, werror, sleeps, switches>>
    /\ UNCHANGED notRetry

handle_final_failure ==
    /\ wnode = "final_failure"
    /\ completion_summary' = [success |-> FALSE, attempts |-> Len(payment_attempts),
                              final_error |-> werror]
    /\ wnode' = "END"
    /\ UNCHANGED <<payment_attempts, current_service, retry_count, max_retries, total_cost,
                   retry_strategy, werror, sleeps, switches>>
    /\ UNCHANGED notRetry

(***************************************************************************)
(* X402Handler.handleX402Response: the client's handling of a 402 response *)
(***************************************************************************)

\* Times run from 0 to MaxTime.
MaxTime == 3

Times == 0..MaxTime

\* The payment methods an Accept-Payment header can offer, and the one
\* paystabl.processPayment pays with.
MethodNames == {"paystabl", "bitcoin"}
SupportedMethods == {"paystabl"}

\* The 402 responses: Accept-Payment, Payment-Amount, Payment-Purpose and
\* Payment-Expires as the server set them.
Responses == [methods : SUBSET MethodNames \ {{}}, amount : {1, 3},
              purpose : {"api_access", ""}, expires : Times]

NoResponse == [methods |-> {}, amount |-> 0, purpose |-> "", expires |-> 0]

NoDetails == [acceptedMethods |-> {}, amount |-> 0, purpose |-> "", expiresAt |-> 0]

NoRequest == [amount |-> 0, purpose |-> "", called |-> FALSE]

\* X402Handler.parseX402Headers
parseX402Headers(response) ==
    [acceptedMethods |-> response.methods,
     amount          |-> response.amount,
     purpose         |-> response.purpose,
     expiresAt       |-> response.expires]

HandlerIdle ==
    /\ hpc = "idle"
    /\ hresponse = NoResponse
    /\ hnow = 0
    /\ paymentDetails = NoDetails
    /\ hprocessed = NoRequest
    /\ hresult = "none"

\* handleX402Response(response), up to the await: the headers are parsed and
\* processPayment is called with the parsed amount and purpose.
handleX402Response ==
    /\ hpc = "idle"
    /\ \E response \in Responses, now \in Times :
         /\ hresponse' = response
         /\ hnow' = now
         /\ paymentDetails' = parseX402Headers(response)
         /\ hprocessed' = [amount  |-> parseX402Headers(response).amount,
                           purpose |-> parseX402Headers(response).purpose,
                           called  |-> TRUE]
    /\ hpc' = "processPayment"
    /\ UNCHANGED hresult
    /\ UNCHANGED notHandler

\* await this.paystabl.processPayment(...) settles: the payment headers are
\* returned, or its error propagates.
processPaymentSettles ==
    /\ hpc = "processPayment"
    /\ \E outcome \in {"X-Payment", "INSUFFICIENT_FUNDS", "POLICY_VIOLATION"} :
         hresult' = outcome
    /\ hpc' = "returned"
    /\ UNCHANGED <<hresponse, hnow, paymentDetails, hprocessed>>
    /\ UNCHANGED notHandler

(***************************************************************************)
(* The X-Payment header: formatPaymentHeader on the client, and            *)
(* parsePaymentHeader on the verifier. Strings are sequences of characters.*)
(***************************************************************************)

\* The longest txHash, signature or agentId formatted.
MaxFieldLen == 3

Str_type == <<"t", "y", "p", "e">>
Str_paystabl == <<"p", "a", "y", "s", "t", "a", "b", "l">>
Str_receipt == <<"r", "e", "c", "e", "i", "p", "t">>
Str_signature == <<"s", "i", "g", "n", "a", "t", "u", "r", "e">>
Str_agent == <<"a", "g", "e", "n", "t">>
Str_amount == <<"a", "m", "o", "u", "n", "t">>

\* Field values: hexadecimal hashes and signatures, agent identifiers.
FieldChars == {"0", "a", "_"}

FieldValues == UNION {[1..n -> FieldChars] : n \in 1..MaxFieldLen}

PaymentResults == [txHash : FieldValues, signature : {<<"a">>, <<"0", "a">>},
                   agentId : {<<"a">>, <<"a", "_", "0">>}]

\* params.get(name): a string, or null
Null == [isNull |-> TRUE, value |-> <<>>]
Value(str) == [isNull |-> FALSE, value |-> str]

\* `type=paystabl receipt=${payment.txHash} signature=${payment.signature} agent=${payment.agentId}`
formatPaymentHeader(payment) ==
    Str_type \o <<"=">> \o Str_paystabl \o <<" ">>
      \o Str_receipt \o <<"=">> \o payment.txHash \o <<" ">>
      \o Str_signature \o <<"=">> \o payment.signature \o <<" ">>
      \o Str_agent \o <<"=">> \o payment.agentId

\* str.replace(/from/g, to), for one-character from and to
ReplaceAll(str, from, to) ==
    [i \in 1..Len(str) |-> IF str[i] = from THEN to ELSE str[i]]

\* The index of the first occurrence of character c in str, or 0.
IndexOf(str, c) ==
    IF \E i \in 1..Len(str) : str[i] = c
       THEN CHOOSE i \in 1..Len(str) : str[i] = c /\ \A j \in 1..(i - 1) : str[j] # c
       ELSE 0

RECURSIVE Split(_, _)
\* str.split(sep), for a one-character sep
Split(str, sep) ==
    LET i == IndexOf(str, sep) IN
      IF i = 0 THEN <<str>>
      ELSE <<SubSeq(str, 1, i - 1)>> \o Split(SubSeq(str, i + 1, Len(str)), sep)

\* new URLSearchParams(init), for init without '%': the pieces between '&', empty
\* pieces dropped, each split at its first '=' into name and value, '+' read as a
\* space.
URLSearchParams(init) ==
    LET pieces == SelectSeq(Split(init, "&"), LAMBDA piece : piece # <<>>)
        pair(piece) ==
            LET i == IndexOf(piece, "=") IN
              IF i = 0
                 THEN [name |-> ReplaceAll(piece, "+", " "), value |-> <<>>]
                 ELSE [name  |-> ReplaceAll(SubSeq(piece, 1, i - 1), "+", " "),
                       value |-> ReplaceAll(SubSeq(piece, i + 1, Len(piece)), "+", " ")]
    IN [k \in 1..Len(pieces) |-> pair(pieces[k])]

\* params.get(name): the value of the first pair of that name, or null
ParamsGet(params, name) ==
    IF \E k \in 1..Len(params) : params[k].name = name
       THEN Value(params[CHOOSE k \in 1..Len(params) :
                            /\ params[k].name = name
                            /\ \A j \in 1..(k - 1) : params[j].name # name].value)
       ELSE Null

\* X402Validator.parsePaymentHeader(header)
parsePaymentHeader(header) ==
    LET params == URLSearchParams(ReplaceAll(header, "=", "&")) IN
      [type      |-> ParamsGet(params, Str_type),
       receipt   |-> ParamsGet(params, Str_receipt),
       signature |-> ParamsGet(params, Str_signature),
       agent     |-> ParamsGet(params, Str_agent),
       amount    |-> ParamsGet(params, Str_amount)]

NoParsed == [type |-> Null, receipt |-> Null, signature |-> Null, agent |-> Null,
             amount |-> Null]

CodecIdle ==
    /\ cpc = "idle"
    /\ cpayment = [txHash |-> <<>>, signature |-> <<>>, agentId |-> <<>>]
    /\ xPayment = <<>>
    /\ parsedPayment = NoParsed

\* The client has a PaymentResult and formats the X-Payment header of its retry.
FormatPaymentHeader ==
    /\ cpc = "idle"
    /\ \E payment \in PaymentResults :
         /\ cpayment' = payment
         /\ xPayment' = formatPaymentHeader(payment)
    /\ cpc' = "sent"
    /\ UNCHANGED parsedPayment
    /\ UNCHANGED notCodec

\* The verifier parses the header it received (validatePaymentHeader's first step).
ParsePaymentHeader ==
    /\ cpc = "sent"
    /\ parsedPayment' = parsePaymentHeader(xPayment)
    /\ cpc' = "parsed"
    /\ UNCHANGED <<cpayment, xPayment>>
    /\ UNCHANGED notCodec

(***************************************************************************)
(* ResearchPipeline.executeResearchProject / executePhase                  *)
(***************************************************************************)

\* The largest project budget tried, in dollars.
MaxBudget == 40

Budgets == 0..MaxBudget

\* The phases of executeResearchProject and their amounts, in dollars.
Phases ==
    << [task |-> "data_collection",      amount |-> 8],
       [task |-> "statistical_analysis", amount |-> 12],
       [task |-> "technical_writing",    amount |-> 10],
       [task |-> "peer_review",          amount |-> 6] >>

\* The budget check with the cost already run up left out.
exceedsBudget_ignoresTotal(totalCost, amount, budget) == amount > budget

\* if (project.totalCost + parseFloat(amount) > project.budget) throw ...
exceedsBudget(totalCost, amount, budget) == totalCost + amount > budget

PipelineIdle ==
    /\ project = [budget |-> 0, totalCost |-> 0, phases |-> <<>>]
    /\ phase = 0
    /\ rpc = "idle"
    /\ paidOut = 0
    /\ rresult = [success |-> FALSE, cost |-> 0, error |-> "none"]

\* executeResearchProject(topic, budget): the project is created and the first
\* phase entered.
executeResearchProject ==
    /\ rpc = "idle"
    /\ \E budget \in Budgets :
         project' = [budget |-> budget, totalCost |-> 0, phases |-> <<>>]
    /\ phase' = 1
    /\ rpc' = "executePhase"
    /\ UNCHANGED <<paidOut, rresult>>
    /\ UNCHANGED notPipeline

\* executePhase up to the payment: dependencies awaited, then the budget check,
\* which throws (caught by executeResearchProject) or lets pay_agent be called.
executePhaseCheck ==
    /\ rpc = "executePhase"
    /\ IF exceedsBudget(project.totalCost, Phases[phase].amount, project.budget)
          THEN /\ rpc' = "returned"
               /\ rresult' = [success |-> FALSE, cost |-> project.totalCost,
                              error |-> "Budget exceeded"]
          ELSE /\ rpc' = "pay_agent"
               /\ UNCHANGED rresult
    /\ UNCHANGED <<project, phase, paidOut>>
    /\ UNCHANGED notPipeline

\* await this.orchestrator.pay_agent(...) settles: paid, the cost is added and the
\* phase recorded, then the next phase or the final result; or it throws.
payAgentSettles ==
    /\ rpc = "pay_agent"
    /\ \E paid \in BOOLEAN :
         IF paid
            THEN LET amount == Phases[phase].amount
                     after == [project EXCEPT
                                 !.totalCost = @ + amount,
                                 !.phases = Append(@, [task |-> Phases[phase].task,
                                                       amount |-> amount,
                                                       status |-> "completed"])]
                 IN /\ project' = after
                    /\ paidOut' = paidOut + amount
                    /\ IF phase < Len(Phases)
                          THEN /\ phase' = phase + 1
                               /\ rpc' = "executePhase"
                               /\ UNCHANGED rresult
                          ELSE /\ rpc' = "returned"
                               /\ rresult' = [success |-> TRUE, cost |-> after.totalCost,
                                              error |-> "none"]
                               /\ UNCHANGED phase
            ELSE /\ rpc' = "returned"
                 /\ rresult' = [success |-> FALSE, cost |-> project.totalCost,
                                error |-> "pay_agent failed"]
                 /\ UNCHANGED <<project, phase, paidOut>>
    /\ UNCHANGED notPipeline

(***************************************************************************)
(* pay_api_endpoint, "Dynamic Pricing Support": the price is checked       *)
(* first and the payment made only if it is acceptable.                    *)
(***************************************************************************)

\* The highest price a price check answers, in cents.
MaxPrice == 120

\* parseFloat(priceInfo.amount) <= 1.00, in cents
PriceCeiling == 100

\* The acceptance test the wrong way round.
priceAcceptable_reversed(amount) == amount >= PriceCeiling

priceAcceptable(amount) == amount <= PriceCeiling

PricingIdle ==
    /\ dpc = "idle"
    /\ priceCheck = [status |-> 0, amount |-> 0]
    /\ payCalled = FALSE
    /\ dresult = "none"

\* const priceCheck = await fetch(".../price-check", ...)
fetchPriceCheck ==
    /\ dpc = "idle"
    /\ \E status \in {200, 402}, amount \in 0..MaxPrice :
         priceCheck' = [status |-> status, amount |-> amount]
    /\ dpc' = "priceCheck"
    /\ UNCHANGED <<payCalled, dresult>>
    /\ UNCHANGED notPricing

\* if (priceCheck.status === 402) { ... if (amount <= 1.00) pay_api_endpoint(...) }
proceedIfAcceptable ==
    /\ dpc = "priceCheck"
    /\ IF priceCheck.status = 402 /\ priceAcceptable(priceCheck.amount)
          THEN /\ payCalled' = TRUE
               /\ dpc' = "pay_api_endpoint"
          ELSE /\ payCalled' = FALSE
               /\ dpc' = "done"
    /\ UNCHANGED <<priceCheck, dresult>>
    /\ UNCHANGED notPricing

\* await pay_api_endpoint(...) settles
payApiEndpointSettles ==
    /\ dpc = "pay_api_endpoint"
    /\ \E outcome \in {"paid", "INSUFFICIENT_FUNDS", "POLICY_VIOLATION"} :
         dresult' = outcome
    /\ dpc' = "done"
    /\ UNCHANGED <<priceCheck, payCalled>>
    /\ UNCHANGED notPricing

(***************************************************************************)
(* The 402 offer on the wire: x402Middleware builds the response headers,  *)
(* X402Handler.parseX402Headers reads them on the client.                  *)
(***************************************************************************)

\* Date.now() is one of the quarter seconds 0, 250, ..., MaxTicks * 250 (ms).
MaxTicks == 5

Clock == {k * 250 : k \in 0..MaxTicks}

\* 15 * 60 * 1000, the lifetime of an offer in milliseconds
OfferLifetime == 900000

Str_required == <<"r", "e", "q", "u", "i", "r", "e", "d">>
Str_bitcoin == <<"b", "i", "t", "c", "o", "i", "n">>
Str_lightning == <<"l", "i", "g", "h", "t", "n", "i", "n", "g">>
Str_optional == <<"o", "p", "t", "i", "o", "n", "a", "l">>
Str_currency == <<"c", "u", "r", "r", "e", "n", "c", "y">>

\* The requiredAmount and currency arguments x402Middleware is set up with.
RequiredAmounts == {<<"2", ".", "5", "0">>, <<"1">>, <<"0", ".", "0", "0", "1">>}
Currencies == {<<"U", "S", "D">>, <<"E", "U", "R">>, <<"B", "T", "C">>}

\* 'paystabl agent=required, bitcoin lightning=optional'
AcceptPaymentValue ==
    Str_paystabl \o <<" ">> \o Str_agent \o <<"=">> \o Str_required \o <<",", " ">>
      \o Str_bitcoin \o <<" ">> \o Str_lightning \o <<"=">> \o Str_optional

\* The methods that header value offers, each with its parameters.
OfferedMethods ==
    << [method |-> Str_paystabl,
        params |-> << [name |-> Str_agent, value |-> Str_required] >>],
       [method |-> Str_bitcoin,
        params |-> << [name |-> Str_lightning, value |-> Str_optional] >>] >>

\* The value of a Payment-Expires header: an HTTP-date, which carries whole
\* seconds and is represented by the number of seconds it names, or a string that
\* is no date.
HttpDate(seconds) == [date |-> TRUE, seconds |-> seconds]
NotADate == [date |-> FALSE, seconds |-> 0]

\* Date.prototype.toUTCString()
toUTCString(ms) == HttpDate(ms \div 1000)

\* A Date: its time value in milliseconds, or Invalid Date.
DateOf(ms) == [valid |-> TRUE, ms |-> ms]
InvalidDate == [valid |-> FALSE, ms |-> 0]

\* new Date(expires) for expires a string or null: null is converted to the
\* number 0, a string that is no date gives Invalid Date; nothing is thrown.
NewDate(expires) ==
    IF expires.isNull THEN DateOf(0)
    ELSE IF expires.value.date THEN DateOf(expires.value.seconds * 1000)
    ELSE InvalidDate

\* headers.get(name): the value of the header, or null when the response has none
HeadersGet(headers, name) ==
    IF name \in DOMAIN headers THEN Value(headers[name]) ELSE Null

\* The 402 response headers x402Middleware(requiredAmount, currency) sets at time
\* now; required is its requiredAmount.
x402MiddlewareHeaders(required, currency, now) ==
    [AcceptPayment  |-> AcceptPaymentValue,
     PaymentAmount  |-> Str_amount \o <<"=">> \o required \o <<" ">>
                          \o Str_currency \o <<"=">> \o currency,
     PaymentPurpose |-> "API access fee",
     PaymentExpires |-> toUTCString(now + OfferLifetime)]

\* The words of a header value: the pieces between spaces, empty pieces dropped.
Words(str) == SelectSeq(Split(str, " "), LAMBDA word : word # <<>>)

\* A key=value parameter, split at its first '='.
KeyValue(word) ==
    LET i == IndexOf(word, "=") IN
      IF i = 0 THEN [name |-> word, value |-> <<>>]
      ELSE [name |-> SubSeq(word, 1, i - 1), value |-> SubSeq(word, i + 1, Len(word))]

\* parseAmount: the decimal of "amount=<decimal> currency=<code>"
parseAmount(value) ==
    LET words == Words(value) IN
      ParamsGet([k \in 1..Len(words) |-> KeyValue(words[k])], Str_amount)

\* parseAcceptPayment: the comma-separated method descriptors, each a method name
\* followed by its key=value parameters
parseAcceptPayment(value) ==
    LET descriptors == SelectSeq(Split(value, ","), LAMBDA d : Words(d) # <<>>)
        descriptor(d) ==
            LET words == Words(d) IN
              [method |-> words[1],
               params |-> [k \in 1..(Len(words) - 1) |-> KeyValue(words[k + 1])]]
    IN [k \in 1..Len(descriptors) |-> descriptor(descriptors[k])]

\* X402Handler.parseX402Headers(headers): the PaymentDetails object it returns has
\* these four properties and no other. (Every response of the model carries
\* Accept-Payment and Payment-Amount, so the two parsers are given strings.)
X402Handler_parseX402Headers(headers) ==
    LET acceptPayment == HeadersGet(headers, "AcceptPayment")
        amount == HeadersGet(headers, "PaymentAmount")
        purpose == HeadersGet(headers, "PaymentPurpose")
        expires == HeadersGet(headers, "PaymentExpires")
    IN [acceptedMethods |-> parseAcceptPayment(acceptPayment.value),
        amount          |-> parseAmount(amount.value),
        purpose         |-> purpose,
        expiresAt       |-> NewDate(expires)]

\* object.name as handleX402Response reads it: the property's value, or undefined
\* (null) when the object has no such property.
Property(object, name) ==
    IF name \in DOMAIN object THEN Value(object[name]) ELSE Null

NoOffer == [amount |-> <<>>, currency |-> <<>>, methods |-> <<>>, purpose |-> "",
            expires |-> 0]

NoOfferHeaders == [AcceptPayment |-> <<>>, PaymentAmount |-> <<>>, PaymentPurpose |-> "",
                   PaymentExpires |-> NotADate]

NoOfferDetails == [acceptedMethods |-> <<>>, amount |-> Null, purpose |-> Null,
                   expiresAt |-> InvalidDate]

\* The 402 responses of other servers: those of x402Middleware with the currency
\* left out of Payment-Amount, with Payment-Purpose left out, and with
\* Payment-Expires left out or not an HTTP-date.
Without(headers, name) == [h \in DOMAIN headers \ {name} |-> headers[h]]

ResponseHeaders ==
    LET full == {x402MiddlewareHeaders(required, currency, now) :
                    required \in RequiredAmounts, currency \in Currencies, now \in Clock}
        amounts == full \cup {[h EXCEPT !.PaymentAmount = Str_amount \o <<"=">> \o required] :
                                h \in full, required \in RequiredAmounts}
        purposes == amounts \cup {Without(h, "PaymentPurpose") : h \in amounts}
    IN purposes \cup {Without(h, "PaymentExpires") : h \in purposes}
                \cup {[h EXCEPT !.PaymentExpires = NotADate] : h \in purposes}

OfferIdle ==
    /\ opc = "idle"
    /\ offer = NoOffer
    /\ offerHeaders = NoOfferHeaders
    /\ offerDetails = NoOfferDetails

\* x402Middleware on a request without an X-Payment header: the 402 response with
\* the payment requirements.
x402Middleware ==
    /\ opc = "idle"
    /\ \E required \in RequiredAmounts, currency \in Currencies, now \in Clock :
         /\ offer' = [amount   |-> required,
                      currency |-> currency,
                      methods  |-> OfferedMethods,
                      purpose  |-> "API access fee",
                      expires  |-> now + OfferLifetime]
         /\ offerHeaders' = x402MiddlewareHeaders(required, currency, now)
    /\ opc' = "sent"
    /\ UNCHANGED offerDetails
    /\ UNCHANGED notOffer

\* Another server answers 402 with headers of its own making.
Receive402Response ==
    /\ opc = "idle"
    /\ \E headers \in ResponseHeaders : offerHeaders' = headers
    /\ opc' = "received"
    /\ UNCHANGED <<offer, offerDetails>>
    /\ UNCHANGED notOffer

\* The client receives the 402 response: handleX402Response's first statement.
ClientParsesOffer ==
    /\ opc \in {"sent", "received"}
    /\ offerDetails' = X402Handler_parseX402Headers(offerHeaders)
    /\ opc' = IF opc = "sent" THEN "parsed" ELSE "parsed_received"
    /\ UNCHANGED <<offer, offerHeaders>>
    /\ UNCHANGED notOffer

(***************************************************************************)
(* AdaptiveRateLimiter.checkAndUpdateLimit                                 *)
(***************************************************************************)

\* The most calls of checkAndUpdateLimit made, and the latest Date.now() (ms).
MaxChecks == 4
MaxNow == 3

\* The RateLimit getDefaultLimit(operation) gives: maxRequests per window of
\* windowMs milliseconds.
DefaultMaxRequests == 2
DefaultWindowMs == 2

\* `${agentId}:${operation}` for the one agent and its operations
LimitKeys == {"agent:payment", "agent:balance"}

\* getDefaultLimit(operation): a new RateLimit, no request counted and no window
\* started yet.
getDefaultLimit ==
    [maxRequests |-> DefaultMaxRequests, windowMs |-> DefaultWindowMs,
     count |-> 0, windowStart |-> -1]

NoLimitResult == [allowed |-> FALSE, remainingRequests |-> 0, resetTime |-> 0]

\* checkAndUpdateLimit counting the refused requests as well.
checkAndUpdateLimit_countsRefused(map, key, now) ==
    LET limit == IF key \in DOMAIN map THEN map[key] ELSE getDefaultLimit
        windowStart == (now \div limit.windowMs) * limit.windowMs
        current == IF limit.windowStart # windowStart
                      THEN [limit EXCEPT !.count = 0, !.windowStart = windowStart]
                      ELSE limit
        counted == [current EXCEPT !.count = @ + 1]
    IN [limits |-> [k \in DOMAIN map \cup {key} |-> IF k = key THEN counted ELSE map[k]],
        result |-> IF current.count >= current.maxRequests
                      THEN [allowed |-> FALSE, remainingRequests |-> 0,
                            resetTime |-> windowStart + limit.windowMs]
                      ELSE [allowed |-> TRUE,
                            remainingRequests |-> counted.maxRequests - counted.count,
                            resetTime |-> windowStart + limit.windowMs]]

\* checkAndUpdateLimit refusing one request late (limit.count > limit.maxRequests).
checkAndUpdateLimit_oneLate(map, key, now) ==
    LET limit == IF key \in DOMAIN map THEN map[key] ELSE getDefaultLimit
        windowStart == (now \div limit.windowMs) * limit.windowMs
        current == IF limit.windowStart # windowStart
                      THEN [limit EXCEPT !.count = 0, !.windowStart = windowStart]
                      ELSE limit
        counted == [current EXCEPT !.count = @ + 1]
    IN IF current.count > current.maxRequests
          THEN [limits |-> [k \in DOMAIN map |-> IF k = key THEN current ELSE map[k]],
                result |-> [allowed |-> FALSE, remainingRequests |-> 0,
                            resetTime |-> windowStart + limit.windowMs]]
          ELSE [limits |-> [k \in DOMAIN map \cup {key} |->
                              IF k = key THEN counted ELSE map[k]],
                result |-> [allowed |-> TRUE,
                            remainingRequests |-> counted.maxRequests - counted.count,
                            resetTime |-> windowStart + limit.windowMs]]

\* AdaptiveRateLimiter.checkAndUpdateLimit(agentId, operation) at Date.now() = now,
\* on this.limits = map: the new this.limits and the RateLimitResult. The limit
\* object is changed in place, so a window reset reaches a stored limit even when
\* the request is refused.
checkAndUpdateLimit(map, key, now) ==
    LET limit == IF key \in DOMAIN map THEN map[key] ELSE getDefaultLimit
        windowStart == (now \div limit.windowMs) * limit.windowMs
        current == IF limit.windowStart # windowStart
                      THEN [limit EXCEPT !.count = 0, !.windowStart = windowStart]
                      ELSE limit
        counted == [current EXCEPT !.count = @ + 1]
    IN IF current.count >= current.maxRequests
          THEN [limits |-> [k \in DOMAIN map |-> IF k = key THEN current ELSE map[k]],
                result |-> [allowed |-> FALSE, remainingRequests |-> 0,
                            resetTime |-> windowStart + limit.windowMs]]
          ELSE [limits |-> [k \in DOMAIN map \cup {key} |->
                              IF k = key THEN counted ELSE map[k]],
                result |-> [allowed |-> TRUE,
                            remainingRequests |-> counted.maxRequests - counted.count,
                            resetTime |-> windowStart + limit.windowMs]]

\* limit.count of a key, 0 while nothing is stored for it
LimitCount(map, key) == IF key \in DOMAIN map THEN map[key].count ELSE 0

\* Math.floor(now / limit.windowMs) * limit.windowMs for the default window
WindowStart(now) == (now \div DefaultWindowMs) * DefaultWindowMs

Windows == {WindowStart(now) : now \in 0..MaxNow}

LimiterIdle ==
    /\ limits = <<>>
    /\ lnow = 0
    /\ lkey = "none"
    /\ lresult = NoLimitResult
    /\ lcalls = 0
    /\ lallowed = [key \in LimitKeys |-> [w \in Windows |-> 0]]

\* One call checkAndUpdateLimit(agentId, operation); the clock does not run back.
CheckAndUpdateLimit ==
    /\ lcalls < MaxChecks
    /\ \E key \in LimitKeys, now \in lnow..MaxNow :
         LET outcome == checkAndUpdateLimit(limits, key, now) IN
           /\ limits' = outcome.limits
           /\ lresult' = outcome.result
           /\ lkey' = key
           /\ lnow' = now
           /\ lallowed' = IF outcome.result.allowed
                              THEN [lallowed EXCEPT ![key][WindowStart(now)] = @ + 1]
                              ELSE lallowed
    /\ lcalls' = lcalls + 1
    /\ UNCHANGED notLimiter

(***************************************************************************)
(* One negotiation, as pay_api_endpoint and pay_agent run it for a call    *)
(* with a timeout: the states of the negotiation and the calls it awaits.  *)
(***************************************************************************)

\* The longest timeout a caller supplies, in ticks of the clock.
MaxTimeout == 4

\* The states in which a call is awaited: the request that detects the offer,
\* the Signer call, the resend with the proof, the Ledger commit.
AwaitingStates == {"INIT", "SIGNING", "RESENDING", "VERIFYING"}

TerminalStates == {"COMPLETE", "FAILED"}

\* The state that follows the return of the awaited call.
AfterCall(state) ==
    CASE state = "INIT"      -> "OFFER_DETECTED"
      [] state = "SIGNING"   -> "RESENDING"
      [] state = "RESENDING" -> "VERIFYING"
      [] state = "VERIFYING" -> "COMPLETE"

\* The error an awaited call can return with.
CallErrors(state) ==
    CASE state = "INIT"      -> {"NETWORK_ERROR"}
      [] state = "SIGNING"   -> {"SIGNING_ERROR"}
      [] state = "RESENDING" -> {"NETWORK_ERROR", "INSUFFICIENT_AMOUNT"}
      [] state = "VERIFYING" -> {"ALREADY_USED"}

\* The reason of the failure when the timeout of an awaited call expires.
ExpiryReason(state) ==
    IF state \in {"INIT", "RESENDING"} THEN "NETWORK_ERROR" ELSE "TIMEOUT"

NegotiationIdle ==
    /\ gstate = "idle"
    /\ gtimeout = 0
    /\ gelapsed = 0
    /\ greason = "none"

\* The caller starts a call with its timeout: the request is sent.
StartNegotiation ==
    /\ gstate = "idle"
    /\ \E timeout \in 1..MaxTimeout : gtimeout' = timeout
    /\ gstate' = "INIT"
    /\ UNCHANGED <<gelapsed, greason>>
    /\ UNCHANGED notNegotiation

\* The awaited call returns before the timeout expired, with its result or with
\* an error.
CallReturns ==
    /\ gstate \in AwaitingStates
    /\ gelapsed < gtimeout
    /\ \/ /\ gstate' = AfterCall(gstate)
          /\ gelapsed' = 0
          /\ UNCHANGED greason
       \/ \E error \in CallErrors(gstate) :
            /\ gstate' = "FAILED"
            /\ greason' = error
            /\ UNCHANGED gelapsed
    /\ UNCHANGED gtimeout
    /\ UNCHANGED notNegotiation

\* Time passes while a call is awaited.
Tick ==
    /\ gstate \in AwaitingStates
    /\ gelapsed < gtimeout
    /\ gelapsed' = gelapsed + 1
    /\ UNCHANGED <<gstate, gtimeout, greason>>
    /\ UNCHANGED notNegotiation

\* The timer of the awaited call never fires (> for >=).
TimeoutExpires_never ==
    /\ gstate \in AwaitingStates
    /\ gelapsed > gtimeout
    /\ gstate' = "FAILED"
    /\ greason' = ExpiryReason(gstate)
    /\ UNCHANGED <<gtimeout, gelapsed>>
    /\ UNCHANGED notNegotiation

\* The awaited call has not returned within the timeout: the negotiation fails.
TimeoutExpires ==
    /\ gstate \in AwaitingStates
    /\ gelapsed >= gtimeout
    /\ gstate' = "FAILED"
    /\ greason' = ExpiryReason(gstate)
    /\ UNCHANGED <<gtimeout, gelapsed>>
    /\ UNCHANGED notNegotiation

\* evaluate(offer, callerIntent): the offer detected is evaluated, then accepted
\* or rejected.
EvaluateOffer ==
    /\ \/ /\ gstate = "OFFER_DETECTED"
          /\ gstate' = "EVALUATING"
          /\ UNCHANGED greason
       \/ /\ gstate = "EVALUATING"
          /\ \/ gstate' = "POLICY_CHECK" /\ UNCHANGED greason
             \/ \E reason \in {"PAYMENT_EXPIRED", "UNSUPPORTED_METHOD", "INVALID_FORMAT"} :
                  gstate' = "FAILED" /\ greason' = reason
    /\ UNCHANGED <<gtimeout, gelapsed>>
    /\ UNCHANGED notNegotiation

\* authorize(principal, amount, counterparty, now): authorized, denied, or parked
\* until an approval decision.
Authorize ==
    /\ gstate = "POLICY_CHECK"
    /\ \/ gstate' = "AUTHORIZED" /\ UNCHANGED greason
       \/ gstate' = "AWAITING_APPROVAL" /\ UNCHANGED greason
       \/ gstate' = "FAILED" /\ greason' = "POLICY_VIOLATION"
    /\ UNCHANGED <<gtimeout, gelapsed>>
    /\ UNCHANGED notNegotiation

\* The external approval decision is delivered.
ApprovalDecision ==
    /\ gstate = "AWAITING_APPROVAL"
    /\ \/ gstate' = "AUTHORIZED" /\ UNCHANGED greason
       \/ gstate' = "FAILED" /\ greason' = "POLICY_VIOLATION"
    /\ UNCHANGED <<gtimeout, gelapsed>>
    /\ UNCHANGED notNegotiation

\* The authorized payment is handed to the Signer.
StartSigning ==
    /\ gstate = "AUTHORIZED"
    /\ gstate' = "SIGNING"
    /\ UNCHANGED <<gtimeout, gelapsed, greason>>
    /\ UNCHANGED notNegotiation

(***************************************************************************)
(* The agent's policies replaced (PolicyEngine.setPolicies) while          *)
(* PolicyEnforcement.validateTransaction calls for the agent are running.  *)
(***************************************************************************)

\* Number of validateTransaction calls for the agent in flight together.
NumEvaluations == 2

Evaluations == 1..NumEvaluations

\* The policies before and after an update: every field differs.
OldPolicies == [dailyLimit |-> "10.00", perTransactionLimit |-> "6.00",
                allowedHours |-> "9-17", maxTransactionsPerHour |-> "5",
                suspiciousAmountThreshold |-> "50.00"]
NewPolicies == [dailyLimit |-> "5.00", perTransactionLimit |-> "9.00",
                allowedHours |-> "0-23", maxTransactionsPerHour |-> "1",
                suspiciousAmountThreshold |-> "8.00"]

PolicySets == {OldPolicies, NewPolicies}

NoPolicies == [dailyLimit |-> "", perTransactionLimit |-> "", allowedHours |-> "",
               maxTransactionsPerHour |-> "", suspiciousAmountThreshold |-> ""]

\* The four checks validateTransaction starts with Promise.all.
Checks == {"checkSpendingLimits", "checkTimeRestrictions", "checkVelocityLimits",
           "checkSuspiciousActivity"}

\* getPolicies(agentId): the PolicySet held for the agent
getPolicies == storedPolicies

\* validateTransaction reading the policies anew for each check.
policiesArgument_reread(policies) == getPolicies

\* The policies argument of each check: the constant read once at the start of
\* validateTransaction.
policiesArgument(policies) == policies

UpdateIdle ==
    /\ storedPolicies = OldPolicies
    /\ upc = [e \in Evaluations |-> "idle"]
    /\ upolicies = [e \in Evaluations |-> NoPolicies]
    /\ ugiven = [e \in Evaluations |-> [c \in Checks |-> NoPolicies]]

\* setPolicies(agentId, policies): the agent's PolicySet is replaced by another.
SetPolicies ==
    /\ \E policies \in PolicySets \ {storedPolicies} : storedPolicies' = policies
    /\ UNCHANGED <<upc, upolicies, ugiven>>
    /\ UNCHANGED notUpdate

\* validateTransaction(agentId, transaction) is called.
ValidateTransactionCall(e) ==
    /\ upc[e] = "idle"
    /\ upc' = [upc EXCEPT ![e] = "getPolicies"]
    /\ UNCHANGED <<storedPolicies, upolicies, ugiven>>
    /\ UNCHANGED notUpdate

\* const policies = await this.getPolicies(agentId)
GetPoliciesReturns(e) ==
    /\ upc[e] = "getPolicies"
    /\ upolicies' = [upolicies EXCEPT ![e] = getPolicies]
    /\ upc' = [upc EXCEPT ![e] = "Promise.all"]
    /\ UNCHANGED <<storedPolicies, ugiven>>
    /\ UNCHANGED notUpdate

\* One of the four checks runs and reads the policies it was given.
CheckRuns(e, c) ==
    /\ upc[e] = "Promise.all"
    /\ ugiven[e][c] = NoPolicies
    /\ ugiven' = [ugiven EXCEPT ![e][c] = policiesArgument(upolicies[e])]
    /\ UNCHANGED <<storedPolicies, upc, upolicies>>
    /\ UNCHANGED notUpdate

\* All four checks have settled: validateTransaction returns its result.
ValidateTransactionReturns(e) ==
    /\ upc[e] = "Promise.all"
    /\ \A c \in Checks : ugiven[e][c] # NoPolicies
    /\ upc' = [upc EXCEPT ![e] = "returned"]
    /\ UNCHANGED <<storedPolicies, upolicies, ugiven>>
    /\ UNCHANGED notUpdate

(***************************************************************************)
(* SecureAgentWallet.executeTransaction with its modifiers onlyAuthorized, *)
(* notEmergencyStopped and withinDailyLimit.                               *)
(***************************************************************************)

\* The latest block.timestamp. Time is counted in half days from 1, the first
\* block's time.
MaxBlockTime == 5

\* 1 days, in that unit
OneDay == 2

Days == 0..(MaxBlockTime \div OneDay)

\* The accounts that send executeTransaction: two agents that are signers and one
\* account that is not.
Senders == {"agent_a", "agent_b", "stranger"}
signers == [a \in Senders |-> a # "stranger"]

\* dailyLimits of the secure wallet: every signer has the agent's daily limit.
sw_dailyLimits == [a \in Senders |-> dailyLimit]

\* bool public emergencyStop: no function of the contract sets it.
emergencyStop == FALSE

Values == {4, 6}

\* keccak256(abi.encodePacked(block.timestamp / 1 days)), taken to be free of
\* collisions: the number of the day.
Today(timestamp) == timestamp \div OneDay

SecureIdle ==
    /\ sw_dailySpent = [a \in Senders |-> 0]
    /\ sw_lastResetTime = [d \in Days |-> 0]
    /\ sw_timestamp = 1
    /\ sw_sender = "none"
    /\ sw_value = 0
    /\ sw_outcome = "none"
    /\ sw_spentToday = [a \in Senders |-> 0]

\* A later block is mined.
NextBlock ==
    /\ sw_timestamp < MaxBlockTime
    /\ sw_timestamp' = sw_timestamp + 1
    /\ sw_spentToday' = IF Today(sw_timestamp + 1) # Today(sw_timestamp)
                           THEN [a \in Senders |-> 0]
                           ELSE sw_spentToday
    /\ UNCHANGED <<sw_dailySpent, sw_lastResetTime, sw_sender, sw_value, sw_outcome>>
    /\ UNCHANGED notSecure

\* modifier withinDailyLimit(amount), up to its require: the counter of the sender
\* and lastResetTime as the first statements leave them.
withinDailyLimit_reset(sender) ==
    LET today == Today(sw_timestamp) IN
      IF sw_lastResetTime[today] = 0
         THEN [dailySpent    |-> [sw_dailySpent EXCEPT ![sender] = 0],
               lastResetTime |-> [sw_lastResetTime EXCEPT ![today] = sw_timestamp]]
         ELSE [dailySpent |-> sw_dailySpent, lastResetTime |-> sw_lastResetTime]

\* executeTransaction(to, value, data, signatures) sent by sender: one
\* transaction, which runs to the TransactionExecuted event or reverts whole.
ExecuteTransaction(sender) ==
    /\ \E value \in Values, signaturesValid \in BOOLEAN, success \in BOOLEAN :
         LET reset == withinDailyLimit_reset(sender)
             revert ==
                 IF ~signers[sender] THEN "Unauthorized signer"
                 ELSE IF emergencyStop THEN "Emergency stop activated"
                 ELSE IF ~(reset.dailySpent[sender] + value <= sw_dailyLimits[sender])
                         THEN "Daily limit exceeded"
                 ELSE IF ~signaturesValid THEN "Invalid signatures"
                 ELSE IF ~success THEN "Transaction failed"
                 ELSE "none"
         IN /\ sw_value' = value
            /\ IF revert = "none"
                  THEN /\ sw_dailySpent' = [reset.dailySpent EXCEPT ![sender] = @ + value]
                       /\ sw_lastResetTime' = reset.lastResetTime
                       /\ sw_spentToday' = [sw_spentToday EXCEPT ![sender] = @ + value]
                       /\ sw_outcome' = "TransactionExecuted"
                  ELSE /\ UNCHANGED <<sw_dailySpent, sw_lastResetTime, sw_spentToday>>
                       /\ sw_outcome' = revert
    /\ sw_sender' = sender
    /\ UNCHANGED sw_timestamp
    /\ UNCHANGED notSecure

(***************************************************************************)
(* RobustPaymentHandler.handlePaymentWithRetry and calculateDelay          *)
(***************************************************************************)

\* The largest retryPolicy.maxAttempts configured.
MaxAttempts == 7

\* error.code of what paymentFn throws: the retryable codes and one that is not.
retryableCodes == {"NETWORK_ERROR", "TIMEOUT", "RATE_LIMITED"}
ThrownCodes == retryableCodes \cup {"POLICY_VIOLATION"}

isRetryableError(code) == code \in retryableCodes

\* calculateDelay without the ceiling.
calculateDelay_uncapped(attempt) == 1000 * Pow2(attempt - 1)

\* Math.min(1000 * Math.pow(2, attempt - 1), 30000)
calculateDelay(attempt) == Min(1000 * Pow2(attempt - 1), 30000)

RobustIdle ==
    /\ rh_pc = "idle"
    /\ rh_maxAttempts = 0
    /\ rh_attempt = 0
    /\ rh_lastError = "undefined"
    /\ rh_delays = <<>>

\* handlePaymentWithRetry(paymentFn) is called: let attempt = 1 and the loop test.
handlePaymentWithRetry ==
    /\ rh_pc = "idle"
    /\ \E maxAttempts \in 0..MaxAttempts :
         /\ rh_maxAttempts' = maxAttempts
         /\ rh_pc' = IF 1 <= maxAttempts THEN "paymentFn" ELSE "thrown"
    /\ rh_attempt' = 1
    /\ UNCHANGED <<rh_lastError, rh_delays>>
    /\ UNCHANGED notRobust

\* await paymentFn() returns, or throws: the catch block up to the sleep.
paymentFnSettles ==
    /\ rh_pc = "paymentFn"
    /\ \/ /\ rh_pc' = "returned"
          /\ UNCHANGED <<rh_lastError, rh_delays>>
       \/ \E code \in ThrownCodes :
            /\ rh_lastError' = code
            /\ IF isRetryableError(code) /\ rh_attempt < rh_maxAttempts
                  THEN /\ rh_delays' = Append(rh_delays, calculateDelay(rh_attempt))
                       /\ rh_pc' = "sleep"
                  ELSE /\ rh_pc' = "thrown"
                       /\ UNCHANGED rh_delays
    /\ UNCHANGED <<rh_maxAttempts, rh_attempt>>
    /\ UNCHANGED notRobust

\* await this.sleep(delay) is over: continue, attempt++ and the loop test.
sleepEnds ==
    /\ rh_pc = "sleep"
    /\ rh_attempt' = rh_attempt + 1
    /\ rh_pc' = IF rh_attempt + 1 <= rh_maxAttempts THEN "paymentFn" ELSE "thrown"
    /\ UNCHANGED <<rh_maxAttempts, rh_lastError, rh_delays>>
    /\ UNCHANGED notRobust

(***************************************************************************)
(* robust_payment (Python) and robustPayAgent (JavaScript): the two other  *)
(* retrying payment helpers of the documentation.                          *)
(***************************************************************************)

\* The largest max_retries passed to robust_payment.
MaxRetriesArg == 4

\* The pay_agent calls of one robustPayAgent that are told apart: the count stays
\* at MaxCalls from there on.
MaxCalls == 4

\* error.code of what pay_agent throws; "OTHER" is any code without a case.
PayAgentCodes == {"INSUFFICIENT_FUNDS", "AGENT_NOT_FOUND", "POLICY_VIOLATION",
                  "NETWORK_ERROR", "OTHER"}

CappedIdle ==
    /\ rp_pc = "idle"
    /\ rp_max_retries = 0
    /\ rp_attempt = 0
    /\ rp_calls = 0
    /\ rpa_pc = "idle"
    /\ rpa_calls = 0

\* robust_payment(agent, recipient, amount, max_retries) is called: the first
\* value of range(max_retries), or the return after an empty loop.
robust_payment ==
    /\ rp_pc = "idle"
    /\ \E retries \in 0..MaxRetriesArg :
         /\ rp_max_retries' = retries
         /\ rp_pc' = IF 0 < retries THEN "send_payment" ELSE "max_retries_exceeded"
    /\ rp_attempt' = 0
    /\ UNCHANGED <<rp_calls, rpa_pc, rpa_calls>>
    /\ UNCHANGED notCapped

\* await agent.send_payment(recipient, amount) settles: a result with success, a
\* result without (the loop goes on at once), or an exception (the last attempt
\* returns the failure, any other sleeps).
send_paymentSettles ==
    /\ rp_pc = "send_payment"
    /\ rp_calls' = rp_calls + 1
    /\ \E outcome \in {"success", "no_success", "exception"} :
         CASE outcome = "success" ->
                /\ rp_pc' = "returned_result"
                /\ UNCHANGED rp_attempt
           [] outcome = "no_success" ->
                /\ rp_attempt' = rp_attempt + 1
                /\ rp_pc' = IF rp_attempt + 1 < rp_max_retries
                               THEN "send_payment" ELSE "max_retries_exceeded"
           [] outcome = "exception" ->
                /\ rp_pc' = IF rp_attempt = rp_max_retries - 1
                               THEN "failed_after_attempts" ELSE "sleep"
                /\ UNCHANGED rp_attempt
    /\ UNCHANGED <<rp_max_retries, rpa_pc, rpa_calls>>
    /\ UNCHANGED notCapped

\* await asyncio.sleep(2 ** attempt) is over: the next value of range(max_retries).
backoffSleepEnds ==
    /\ rp_pc = "sleep"
    /\ rp_attempt' = rp_attempt + 1
    /\ rp_pc' = IF rp_attempt + 1 < rp_max_retries
                   THEN "send_payment" ELSE "max_retries_exceeded"
    /\ UNCHANGED <<rp_max_retries, rp_calls, rpa_pc, rpa_calls>>
    /\ UNCHANGED notCapped

\* What robustPayAgent does with the code of the error pay_agent threw.
robustPayAgent_catch(code) ==
    IF code = "NETWORK_ERROR" THEN "setTimeout" ELSE "thrown"

\* robustPayAgent(fromAgentId, toAgentId, amount, purpose) is called.
robustPayAgent ==
    /\ rpa_pc = "idle"
    /\ rpa_pc' = "pay_agent"
    /\ UNCHANGED <<rp_pc, rp_max_retries, rp_attempt, rp_calls, rpa_calls>>
    /\ UNCHANGED notCapped

\* await pay_agent({...}) settles: the payment is returned, or the thrown error
\* goes through the switch on error.code.
pay_agentSettles ==
    /\ rpa_pc = "pay_agent"
    /\ rpa_calls' = Min(rpa_calls + 1, MaxCalls)
    /\ \/ rpa_pc' = "returned"
       \/ \E code \in PayAgentCodes : rpa_pc' = robustPayAgent_catch(code)
    /\ UNCHANGED <<rp_pc, rp_max_retries, rp_attempt, rp_calls>>
    /\ UNCHANGED notCapped

\* The setTimeout of 1000 ms fires: return robustPayAgent(...), the same call
\* again.
retryTimerFires ==
    /\ rpa_pc = "setTimeout"
    /\ rpa_pc' = "pay_agent"
    /\ UNCHANGED <<rp_pc, rp_max_retries, rp_attempt, rp_calls, rpa_calls>>
    /\ UNCHANGED notCapped

(***************************************************************************)
(* PaymentRateLimit.checkRateLimit: the attempt counters and the timers    *)
(* that delete them.                                                       *)
(***************************************************************************)

\* The clock counts half hours up to MaxClock; one hour (60 * 60 * 1000 ms).
MaxClock == 2
OneHour == 2

\* attempts >= 10
MaxPaymentAttempts == 10

\* The calls of checkRateLimit in a run.
MaxRateCalls == 12

Clients == {"client_a", "client_b"}

HalfHours == 0..MaxClock

RECURSIVE SumOver(_, _)
SumOver(f, S) ==
    IF S = {} THEN 0 ELSE LET x == CHOOSE y \in S : TRUE IN f[x] + SumOver(f, S \ {x})

AttemptsIdle ==
    /\ pr_attempts = [c \in Clients |-> 0]
    /\ pr_timers = [c \in Clients |-> [t \in HalfHours |-> 0]]
    /\ pr_now = 0
    /\ pr_result = "none"
    /\ pr_allowed = [c \in Clients |-> [t \in HalfHours |-> 0]]

\* The calls made so far: the allowed ones are in the history, the refused ones
\* change nothing, so the bound is on the allowed calls.
AllowedCalls == SumOver([c \in Clients |-> SumOver(pr_allowed[c], HalfHours)], Clients)

\* checkRateLimit(clientId): refused at 10 counted attempts, otherwise counted,
\* with a timer of one hour set.
checkRateLimit(clientId) ==
    /\ AllowedCalls < MaxRateCalls
    /\ IF pr_attempts[clientId] >= MaxPaymentAttempts
          THEN /\ pr_result' = "false"
               /\ UNCHANGED <<pr_attempts, pr_timers, pr_allowed>>
          ELSE /\ pr_attempts' = [pr_attempts EXCEPT ![clientId] = @ + 1]
               /\ pr_timers' = [pr_timers EXCEPT ![clientId][pr_now] = @ + 1]
               /\ pr_allowed' = [pr_allowed EXCEPT ![clientId][pr_now] = @ + 1]
               /\ pr_result' = "true"
    /\ UNCHANGED pr_now
    /\ UNCHANGED notAttempts

\* A timer set one hour ago fires: this.attempts.delete(key).
resetTimerFires(clientId) ==
    /\ \E t \in HalfHours :
         /\ pr_timers[clientId][t] > 0
         /\ t + OneHour <= pr_now
         /\ pr_timers' = [pr_timers EXCEPT ![clientId][t] = @ - 1]
    /\ pr_attempts' = [pr_attempts EXCEPT ![clientId] = 0]
    /\ UNCHANGED <<pr_now, pr_result, pr_allowed>>
    /\ UNCHANGED notAttempts

\* Half an hour passes, once the timers that are due have fired.
HalfHourPasses ==
    /\ pr_now < MaxClock
    /\ \A c \in Clients, t \in HalfHours : pr_timers[c][t] > 0 => pr_now < t + OneHour
    /\ pr_now' = pr_now + 1
    /\ UNCHANGED <<pr_attempts, pr_timers, pr_result, pr_allowed>>
    /\ UNCHANGED notAttempts

(***************************************************************************)
(* x402Middleware on any request: the 402 answer, validatePaymentHeader,   *)
(* the 400 and 500 answers, next().                                        *)
(***************************************************************************)

Str_ethereum == <<"e", "t", "h", "e", "r", "e", "u", "m">>

\* req.headers['x-payment']: absent, empty, or what a client formatted.
RequestPaymentHeaders ==
    {Null, Value(<<>>)} \cup {Value(formatPaymentHeader(payment)) : payment \in PaymentResults}

NoValidationResult == [valid |-> FALSE, code |-> "none"]

NoResponse402 == [status |-> 0, headers |-> NoOfferHeaders, code |-> "none"]

\* verifyPaymentOnChain(payment): the verifier of payment.type decides (verified),
\* any other type is refused.
verifyPaymentOnChain(payment, verified) ==
    IF payment.type \in {Value(Str_paystabl), Value(Str_bitcoin), Value(Str_ethereum)}
       THEN verified ELSE FALSE

\* X402Validator.validatePaymentHeader(header); isValidFormat and
\* verifyPaymentAmount, whose bodies the documentation does not give, answer
\* formatValid and amountValid.
validatePaymentHeader(header, formatValid, verified, amountValid) ==
    LET payment == parsePaymentHeader(header) IN
      IF ~formatValid THEN [valid |-> FALSE, code |-> "INVALID_FORMAT"]
      ELSE IF ~verifyPaymentOnChain(payment, verified)
              THEN [valid |-> FALSE, code |-> "PAYMENT_NOT_FOUND"]
      ELSE IF ~amountValid THEN [valid |-> FALSE, code |-> "INSUFFICIENT_AMOUNT"]
      ELSE [valid |-> TRUE, code |-> "none"]

\* The middleware going on to the API whatever the validation said.
afterValidation_alwaysNext(result) ==
    [status |-> 0, code |-> "none", next |-> TRUE]

\* What the middleware does with the ValidationResult: 400 with its code, or
\* req.payment = result.payment; next().
afterValidation(result) ==
    IF ~result.valid
       THEN [status |-> 400, code |-> result.code, next |-> FALSE]
       ELSE [status |-> 0, code |-> "none", next |-> TRUE]

MiddlewareIdle ==
    /\ mw_pc = "idle"
    /\ mw_paymentHeader = Null
    /\ mw_result = NoValidationResult
    /\ mw_response = NoResponse402
    /\ mw_next = FALSE

\* A request reaches the middleware: without an X-Payment header (or with an
\* empty one) it is answered 402 with the payment requirements, otherwise the
\* validation starts.
x402MiddlewareReceives ==
    /\ mw_pc = "idle"
    /\ \E paymentHeader \in RequestPaymentHeaders :
         /\ mw_paymentHeader' = paymentHeader
         /\ IF paymentHeader.isNull \/ paymentHeader.value = <<>>
               THEN /\ \E required \in RequiredAmounts, currency \in Currencies,
                          now \in Clock :
                         mw_response' =
                            [status  |-> 402,
                             headers |-> x402MiddlewareHeaders(required, currency, now),
                             code    |-> "payment_required"]
                    /\ mw_pc' = "responded"
               ELSE /\ mw_pc' = "validatePaymentHeader"
                    /\ UNCHANGED mw_response
    /\ UNCHANGED <<mw_result, mw_next>>
    /\ UNCHANGED notMiddleware

\* await validator.validatePaymentHeader(paymentHeader) settles: with a result,
\* which the middleware answers 400 or passes on, or with an exception, which it
\* answers 500.
validatePaymentHeaderSettles ==
    /\ mw_pc = "validatePaymentHeader"
    /\ \/ \E formatValid \in BOOLEAN, verified \in BOOLEAN, amountValid \in BOOLEAN :
            LET result == validatePaymentHeader(mw_paymentHeader.value, formatValid,
                                                verified, amountValid)
                then == afterValidation(result)
            IN /\ mw_result' = result
               /\ mw_next' = then.next
               /\ mw_response' = [mw_response EXCEPT !.status = then.status,
                                                      !.code = then.code]
               /\ mw_pc' = IF then.next THEN "next" ELSE "responded"
       \/ /\ mw_response' = [mw_response EXCEPT !.status = 500,
                                                 !.code = "payment_processing_error"]
          /\ mw_pc' = "responded"
          /\ UNCHANGED <<mw_result, mw_next>>
    /\ UNCHANGED mw_paymentHeader
    /\ UNCHANGED notMiddleware

(***************************************************************************)
(* AgentSubscription: start, stop, makePayment, scheduleNext               *)
(***************************************************************************)

\* The intervals that pass, and the calls of start().
MaxIntervals == 2
MaxStarts == 2

Instants == 0..MaxIntervals
DueTimes == 0..(MaxIntervals + 1)

SubscriptionIdle ==
    /\ sub_isActive = FALSE
    /\ sub_timers = [d \in DueTimes |-> 0]
    /\ sub_timeout = -1
    /\ sub_inflight = 0
    /\ sub_now = 0
    /\ sub_starts = 0
    /\ sub_initiated = [t \in Instants |-> 0]
    /\ sub_skipped = 0

\* makePayment() without its first line.
makePayment_unchecked(isActive) == TRUE

\* makePayment(): if (!this.isActive) return; whether pay_agent is called.
makePayment(isActive) == isActive

\* start(): isActive = true, makePayment() up to its await (the initial payment is
\* initiated), scheduleNext().
AgentSubscription_start ==
    /\ ~sub_isActive
    /\ sub_starts < MaxStarts
    /\ sub_starts' = sub_starts + 1
    /\ sub_isActive' = TRUE
    /\ IF makePayment(TRUE)
          THEN /\ sub_inflight' = sub_inflight + 1
               /\ sub_initiated' = [sub_initiated EXCEPT ![sub_now] = @ + 1]
               /\ UNCHANGED sub_skipped
          ELSE /\ sub_skipped' = sub_skipped + 1
               /\ UNCHANGED <<sub_inflight, sub_initiated>>
    /\ sub_timers' = [sub_timers EXCEPT ![sub_now + 1] = @ + 1]
    /\ sub_timeout' = sub_now + 1
    /\ UNCHANGED sub_now
    /\ UNCHANGED notSubscription

\* stop(): isActive = false, clearTimeout(this.timeout): the timer set last is
\* cancelled if it is still pending.
AgentSubscription_stop ==
    /\ sub_isActive
    /\ sub_isActive' = FALSE
    /\ IF sub_timeout # -1
          THEN sub_timers' = [sub_timers EXCEPT ![sub_timeout] = @ - 1]
          ELSE UNCHANGED sub_timers
    /\ sub_timeout' = -1
    /\ UNCHANGED <<sub_inflight, sub_now, sub_starts, sub_initiated, sub_skipped>>
    /\ UNCHANGED notSubscription

\* await pay_agent(...) of a makePayment settles: after a payment scheduleNext()
\* runs, after an error nothing is scheduled.
makePaymentSettles ==
    /\ sub_inflight > 0
    /\ sub_inflight' = sub_inflight - 1
    /\ \E paid \in BOOLEAN :
         IF paid /\ sub_isActive
            THEN /\ sub_timers' = [sub_timers EXCEPT ![sub_now + 1] = @ + 1]
                 /\ sub_timeout' = sub_now + 1
            ELSE UNCHANGED <<sub_timers, sub_timeout>>
    /\ UNCHANGED <<sub_isActive, sub_now, sub_starts, sub_initiated, sub_skipped>>
    /\ UNCHANGED notSubscription

\* A pending timer is due and fires: makePayment() up to its await. The timer
\* that fires is the one this.timeout names, or another one due at the same time.
timeoutFires ==
    /\ \E d \in DueTimes :
         /\ sub_timers[d] > 0
         /\ d <= sub_now
         /\ sub_timers' = [sub_timers EXCEPT ![d] = @ - 1]
         /\ \/ /\ sub_timeout = d
               /\ sub_timeout' = -1
            \/ /\ sub_timeout # d \/ sub_timers[d] > 1
               /\ UNCHANGED sub_timeout
    /\ IF makePayment(sub_isActive)
          THEN /\ sub_inflight' = sub_inflight + 1
               /\ sub_initiated' = [sub_initiated EXCEPT ![sub_now] = @ + 1]
               /\ UNCHANGED sub_skipped
          ELSE /\ sub_skipped' = sub_skipped + 1
               /\ UNCHANGED <<sub_inflight, sub_initiated>>
    /\ UNCHANGED <<sub_isActive, sub_now, sub_starts>>
    /\ UNCHANGED notSubscription

\* One interval passes, once the timers that are due have fired.
IntervalPasses ==
    /\ sub_now < MaxIntervals
    /\ \A d \in DueTimes : sub_timers[d] > 0 => sub_now < d
    /\ sub_now' = sub_now + 1
    /\ UNCHANGED <<sub_isActive, sub_timers, sub_timeout, sub_inflight, sub_starts,
                   sub_initiated, sub_skipped>>
    /\ UNCHANGED notSubscription

(***************************************************************************)
(* AgentMarketplace: createServiceContract and releaseMilestonePayment     *)
(***************************************************************************)

\* The milestones of a contract, and the calls of releaseMilestonePayment.
MaxMilestones == 2
MaxReleases == 3

\* serviceDetails.amount, in dollars (even, so that the half is whole).
ContractAmounts == {4, 8}
MilestoneAmounts == {2, 4}

MilestoneIndexes == 0..(MaxMilestones - 1)

\* serviceDetails.milestones || []: up to MaxMilestones milestones that together
\* do not exceed the amount of the contract.
MilestoneLists(amount) ==
    {m \in UNION {[1..n -> MilestoneAmounts] : n \in 0..MaxMilestones} :
        SumOver(m, DOMAIN m) <= amount}

NoContract == [status |-> "none", totalAmount |-> 0, escrowAmount |-> 0,
               milestones |-> <<>>]

NoRelease == [milestoneIndex |-> -1, clientApproval |-> FALSE, outcome |-> "none"]

MarketplaceIdle ==
    /\ mk_contract = NoContract
    /\ mk_escrowCollected = 0
    /\ mk_paidOut = 0
    /\ mk_releases = [i \in MilestoneIndexes |-> 0]
    /\ mk_last = NoRelease
    /\ mk_calls = 0

\* (parseFloat(serviceDetails.amount) * 0.5).toFixed(2)
escrowAmountOf(amount) == amount \div 2

\* createServiceContract(clientId, providerId, serviceDetails): the escrow payment
\* from the client to the marketplace, then the contract is stored as active; if
\* pay_agent throws, nothing is stored.
createServiceContract ==
    /\ mk_contract = NoContract
    /\ \E amount \in ContractAmounts :
         \E milestones \in MilestoneLists(amount), paid \in BOOLEAN :
           IF paid
              THEN /\ mk_escrowCollected' = mk_escrowCollected + escrowAmountOf(amount)
                   /\ mk_contract' =
                        [status       |-> "active",
                         totalAmount  |-> amount,
                         escrowAmount |-> escrowAmountOf(amount),
                         milestones   |-> [i \in DOMAIN milestones |->
                                             [amount |-> milestones[i],
                                              status |-> "pending"]]]
              ELSE UNCHANGED <<mk_contract, mk_escrowCollected>>
    /\ UNCHANGED <<mk_paidOut, mk_releases, mk_last, mk_calls>>
    /\ UNCHANGED notMarketplace

\* releaseMilestonePayment(contractId, milestoneIndex, clientApproval): the three
\* checks, the payment from the marketplace to the provider, then the milestone
\* and, with every milestone completed, the contract are marked completed; if
\* pay_agent throws, nothing is marked.
releaseMilestonePayment(milestoneIndex, clientApproval) ==
    /\ mk_calls < MaxReleases
    /\ mk_calls' = mk_calls + 1
    /\ LET call_none == [milestoneIndex |-> milestoneIndex,
                         clientApproval |-> clientApproval, outcome |-> "none"]
       IN IF mk_contract = NoContract
             THEN /\ mk_last' = [call_none EXCEPT !.outcome = "Contract not found"]
                  /\ UNCHANGED <<mk_contract, mk_paidOut, mk_releases>>
          ELSE IF milestoneIndex + 1 > Len(mk_contract.milestones)
             THEN /\ mk_last' = [call_none EXCEPT !.outcome = "Milestone not found"]
                  /\ UNCHANGED <<mk_contract, mk_paidOut, mk_releases>>
          ELSE IF ~clientApproval
             THEN /\ mk_last' = [call_none EXCEPT
                                   !.outcome = "Client approval required for milestone payment"]
                  /\ UNCHANGED <<mk_contract, mk_paidOut, mk_releases>>
          ELSE \E paid \in BOOLEAN :
                 IF ~paid
                    THEN /\ mk_last' = [call_none EXCEPT !.outcome = "pay_agent failed"]
                         /\ UNCHANGED <<mk_contract, mk_paidOut, mk_releases>>
                    ELSE LET milestones ==
                                 [mk_contract.milestones EXCEPT
                                    ![milestoneIndex + 1].status = "completed"]
                             allCompleted ==
                                 \A i \in DOMAIN milestones :
                                    milestones[i].status = "completed"
                         IN /\ mk_paidOut' = mk_paidOut
                                  + mk_contract.milestones[milestoneIndex + 1].amount
                            /\ mk_releases' = [mk_releases EXCEPT ![milestoneIndex] = @ + 1]
                            /\ mk_contract' =
                                 [mk_contract EXCEPT
                                    !.milestones = milestones,
                                    !.status = IF allCompleted THEN "completed" ELSE @]
                            /\ mk_last' = [call_none EXCEPT !.outcome = "paid"]
    /\ UNCHANGED mk_escrowCollected
    /\ UNCHANGED notMarketplace

(***************************************************************************)
(* Specifications: one per subsystem.                                      *)
(***************************************************************************)

AllIdle ==
    /\ VerifyIdle /\ PolicyIdle /\ RetryIdle /\ HandlerIdle /\ CodecIdle
    /\ PipelineIdle /\ PricingIdle /\ OfferIdle /\ LimiterIdle /\ ApprovalIdle
    /\ NegotiationIdle /\ UpdateIdle /\ SecureIdle /\ RobustIdle /\ CappedIdle /\ AttemptsIdle /\ MiddlewareIdle /\ SubscriptionIdle /\ MarketplaceIdle

VerifyInit == AllIdle

VerifyNext ==
    \E p \in Verifiers :
        \/ VerifyPaymentCall(p)
        \/ VerifySignatureStep(p)
        \/ VerifyTransactionExistsStep(p)
        \/ GetTransactionDetailsStep(p)
        \/ CheckPaymentUsedStep(p)
        \/ ThrowAlreadyConsumed(p)
        \/ MarkPaymentUsedStep(p)

SpecVerify == VerifyInit /\ [][VerifyNext]_vars

PolicyInit == AllIdle

PolicyNext ==
    \E n \in Negotiations :
        \/ RequestPayment(n)
        \/ ValidateTransactionStep(n)
        \/ ExecutePayment(n)

SpecPolicy == PolicyInit /\ [][PolicyNext]_vars

RetryInit == AllIdle

RetryNext ==
    \/ validate_request
    \/ attempt_payment
    \/ handle_payment_failure
    \/ retry_with_backoff
    \/ try_alternative_service
    \/ use_fallback_service
    \/ complete_task
    \/ handle_final_failure

SpecRetry == RetryInit /\ [][RetryNext]_vars

HandlerInit == AllIdle

HandlerNext ==
    \/ handleX402Response
    \/ processPaymentSettles

SpecHandler == HandlerInit /\ [][HandlerNext]_vars

CodecInit == AllIdle

CodecNext ==
    \/ FormatPaymentHeader
    \/ ParsePaymentHeader

SpecCodec == CodecInit /\ [][CodecNext]_vars

PipelineInit == AllIdle

PipelineNext ==
    \/ executeResearchProject
    \/ executePhaseCheck
    \/ payAgentSettles

SpecPipeline == PipelineInit /\ [][PipelineNext]_vars

PricingInit == AllIdle

PricingNext ==
    \/ fetchPriceCheck
    \/ proceedIfAcceptable
    \/ payApiEndpointSettles

SpecPricing == PricingInit /\ [][PricingNext]_vars

OfferInit == AllIdle

OfferNext ==
    \/ x402Middleware
    \/ Receive402Response
    \/ ClientParsesOffer

SpecOffer == OfferInit /\ [][OfferNext]_vars

LimiterInit == AllIdle

LimiterNext == CheckAndUpdateLimit

SpecLimiter == LimiterInit /\ [][LimiterNext]_vars

\* The policy checks and the wallet, with the approval workflow for the validation
\* results that require approval.
ApprovalInit == AllIdle

\* The checks without a body are alike (each passes or fails with its own
\* error, none asks for approval): beside the approval workflow one of them
\* stands for the three.
ApprovalOtherChecks == {"time"}

ApprovalNext ==
    \/ PolicyNext /\ \A n \in Negotiations : nfailing'[n] \subseteq ApprovalOtherChecks
    \/ \E n \in Negotiations : RequestApproval(n)
    \/ \E n \in Negotiations : ProcessApproval(n)

SpecApproval == ApprovalInit /\ [][ApprovalNext]_vars

\* The counters of the wallet, of the retry workflow and of the rate limiter, side
\* by side. The three share no variable and no action of one reads another's, so
\* each is run from rest while the other two stay at rest.
CountersInit == AllIdle

CountersNext ==
    \/ RetryIdle /\ LimiterIdle /\ PolicyNext
    \/ PolicyIdle /\ LimiterIdle /\ RetryNext
    \/ PolicyIdle /\ RetryIdle /\ LimiterNext

SpecCounters == CountersInit /\ [][CountersNext]_vars

NegotiationInit == AllIdle

NegotiationNext ==
    \/ StartNegotiation
    \/ CallReturns
    \/ Tick
    \/ TimeoutExpires
    \/ EvaluateOffer
    \/ Authorize
    \/ ApprovalDecision
    \/ StartSigning

SpecNegotiation == NegotiationInit /\ [][NegotiationNext]_vars

\* The negotiation under fairness: the clock runs and the timer fires, the steps
\* the core takes by itself are taken, an approval decision asked for is delivered;
\* an awaited call need never return.
SpecNegotiationFair ==
    /\ SpecNegotiation
    /\ WF_vars(StartNegotiation)
    /\ WF_vars(Tick)
    /\ WF_vars(TimeoutExpires)
    /\ WF_vars(EvaluateOffer)
    /\ WF_vars(Authorize)
    /\ WF_vars(ApprovalDecision)
    /\ WF_vars(StartSigning)

UpdateInit == AllIdle

UpdateNext ==
    \/ SetPolicies
    \/ \E e \in Evaluations : ValidateTransactionCall(e)
    \/ \E e \in Evaluations : GetPoliciesReturns(e)
    \/ \E e \in Evaluations, c \in Checks : CheckRuns(e, c)
    \/ \E e \in Evaluations : ValidateTransactionReturns(e)

SpecUpdate == UpdateInit /\ [][UpdateNext]_vars

SecureInit == AllIdle

SecureNext ==
    \/ NextBlock
    \/ \E sender \in Senders : ExecuteTransaction(sender)

SpecSecure == SecureInit /\ [][SecureNext]_vars

RobustNext ==
    \/ handlePaymentWithRetry
    \/ paymentFnSettles
    \/ sleepEnds

\* The two retry loops side by side: they share nothing, so each is run from rest
\* while the other stays at rest.
DelaysInit == AllIdle

DelaysNext ==
    \/ RobustIdle /\ RetryNext
    \/ RetryIdle /\ RobustNext

SpecDelays == DelaysInit /\ [][DelaysNext]_vars

\* The three retrying helpers side by side, each run from rest while the other
\* two stay at rest. Every step that is enabled is eventually taken: an awaited
\* call settles, a sleep ends, a timer fires.
RobustPaymentIdle == rp_pc = "idle"
RobustPayAgentIdle == rpa_pc = "idle"

CappedInit == AllIdle

CappedNext ==
    \/ RobustPaymentIdle /\ RobustPayAgentIdle /\ RobustNext
    \/ RobustIdle /\ RobustPayAgentIdle /\ robust_payment
    \/ RobustIdle /\ RobustPayAgentIdle /\ send_paymentSettles
    \/ RobustIdle /\ RobustPayAgentIdle /\ backoffSleepEnds
    \/ RobustIdle /\ RobustPaymentIdle /\ robustPayAgent
    \/ RobustIdle /\ RobustPaymentIdle /\ pay_agentSettles
    \/ RobustIdle /\ RobustPaymentIdle /\ retryTimerFires

SpecCapped ==
    /\ CappedInit /\ [][CappedNext]_vars
    /\ WF_vars(paymentFnSettles)
    /\ WF_vars(sleepEnds)
    /\ WF_vars(send_paymentSettles)
    /\ WF_vars(backoffSleepEnds)
    /\ WF_vars(pay_agentSettles)
    /\ WF_vars(retryTimerFires)

AttemptsInit == AllIdle

AttemptsNext ==
    \/ \E c \in Clients : checkRateLimit(c)
    \/ \E c \in Clients : resetTimerFires(c)
    \/ HalfHourPasses

SpecAttempts == AttemptsInit /\ [][AttemptsNext]_vars

MiddlewareInit == AllIdle

MiddlewareNext ==
    \/ x402MiddlewareReceives
    \/ validatePaymentHeaderSettles

SpecMiddleware == MiddlewareInit /\ [][MiddlewareNext]_vars

SubscriptionInit == AllIdle

SubscriptionNext ==
    \/ AgentSubscription_start
    \/ AgentSubscription_stop
    \/ makePaymentSettles
    \/ timeoutFires
    \/ IntervalPasses

SpecSubscription == SubscriptionInit /\ [][SubscriptionNext]_vars

MarketplaceInit == AllIdle

MarketplaceNext ==
    \/ createServiceContract
    \/ \E milestoneIndex \in 0..MaxMilestones, clientApproval \in BOOLEAN :
         releaseMilestonePayment(milestoneIndex, clientApproval)

SpecMarketplace == MarketplaceInit /\ [][MarketplaceNext]_vars

(***************************************************************************)
(* Properties                                                              *)
(***************************************************************************)

\* C1: for every proofId (receipt), of all the verifyPayment calls made for it,
\* concurrently or not, at most one returns valid; every other one is rejected
\* as already used.
C1_ExactlyOneCommit ==
    \A r \in Receipts :
        Cardinality({p \in Verifiers : vpayment[p].receipt = r /\ vresult[p] = "valid"}) <= 1

\* C2: in every interleaving of the agent's concurrent negotiations, the sum of the
\* amounts committed (PaymentExecuted) never exceeds the agent's daily limit, and
\* the wallet's dailySpent counter is exactly that sum.
C2_LimitNeverExceeded ==
    /\ executedTotal <= dailyLimit
    /\ dailySpent[agent] = executedTotal

\* Two negotiations, each within the limit on its own and both validated against
\* the same spend, jointly above the limit: one is executed, the other reverts.
C2_Witness ==
    \E n, m \in Negotiations :
        /\ n # m
        /\ validation[n].valid /\ validation[m].valid
        /\ currentSpend[n] = 0 /\ currentSpend[m] = 0
        /\ ntransaction[n].amount + ntransaction[m].amount > dailyLimit
        /\ noutcome[n] = "PaymentExecuted"
        /\ noutcome[m] = "Daily limit exceeded"

\* The two-negotiation scenario of the daily limit.
C7_Scenario ==
    \A n, m \in Negotiations :
        ( /\ n # m
          /\ ntransaction[n] = [amount |-> 6, recipient |-> "merchant"]
          /\ ntransaction[m] = [amount |-> 6, recipient |-> "merchant"]
          /\ noutcome[n] = "PaymentExecuted"
          /\ npc[m] \notin {"idle", "validateTransaction"}
          /\ currentSpend[m] = 6
          /\ \A k \in Negotiations \ {n, m} : npc[k] = "idle" )
        => ( /\ npc[m] = "denied"
             /\ "Transaction would exceed daily limit" \in validation[m].errors
             /\ executedTotal = 6 )

\* What a validateTransaction step does to a negotiation over the daily limit.
C7_DenialStep ==
    \A n \in Negotiations :
        ( /\ npc[n] = "validateTransaction"
          /\ npc'[n] # "validateTransaction"
          /\ ntransaction[n].amount <= perTransactionLimit
          /\ dailySpent[agent] + ntransaction[n].amount > dailyLimit )
        => ( /\ npc'[n] = "denied"
             /\ ~validation'[n].valid
             /\ "Transaction would exceed daily limit" \in validation'[n].errors
             /\ dailySpent' = dailySpent
             /\ executedTotal' = executedTotal )

\* C7: a negotiation that passes the per-transaction check and whose amount added
\* to the amount already committed exceeds the daily limit is denied by
\* validateTransaction with the daily-limit error, and the denial changes neither
\* dailySpent nor the committed total; with dailyLimit 10 and two negotiations of 6
\* to the allowlisted recipient, the second one validated after the first was
\* executed and no other negotiation made, the second is denied and the committed
\* total stays 6.
C7_PeriodicLimitDenied == []C7_Scenario /\ [][C7_DenialStep]_vars

\* The scenario: the first 6.00 executed, the second 6.00 denied, 6.00 committed.
C7_Witness ==
    \E n, m \in Negotiations :
        /\ n # m
        /\ ntransaction[n] = [amount |-> 6, recipient |-> "merchant"]
        /\ ntransaction[m] = [amount |-> 6, recipient |-> "merchant"]
        /\ noutcome[n] = "PaymentExecuted"
        /\ currentSpend[m] = 6
        /\ npc[m] = "denied"
        /\ validation[m].errors = {"Transaction would exceed daily limit"}
        /\ executedTotal = 6
        /\ \A k \in Negotiations \ {n, m} : npc[k] = "idle"

SuccessfulAttempts ==
    {i \in 1..Len(payment_attempts) :
        payment_attempts[i].type = "attempt" /\ payment_attempts[i].status = "success"}

C6_State ==
    /\ Cardinality(SuccessfulAttempts) <= 1
    /\ \A i \in SuccessfulAttempts :
          /\ i = Len(payment_attempts)
          /\ wnode \in {"complete_task", "END"}
          /\ total_cost = payment_attempts[i].amount
    /\ SuccessfulAttempts = {} => total_cost = 0

C6_Step ==
    SuccessfulAttempts # {} =>
        /\ payment_attempts' = payment_attempts
        /\ total_cost' = total_cost

AllNetworkErrors ==
    /\ payment_attempts # <<>>
    /\ \A i \in 1..Len(payment_attempts) :
          /\ payment_attempts[i].type = "attempt"
          /\ payment_attempts[i].error_code = "NETWORK_ERROR"

C4_ExpiredOfferNeverSigned ==
    (hpc # "idle" /\ paymentDetails.expiresAt <= hnow) =>
        /\ ~hprocessed.called
        /\ hpc = "returned" => hresult = "PAYMENT_EXPIRED"

\* C10: the verifier's parsePaymentHeader recovers from the X-Payment header the
\* type, receipt, signature and agent that formatPaymentHeader encoded.
C10_ProofHeaderRoundTrip ==
    cpc = "parsed" =>
        /\ parsedPayment.type = Value(Str_paystabl)
        /\ parsedPayment.receipt = Value(cpayment.txHash)
        /\ parsedPayment.signature = Value(cpayment.signature)
        /\ parsedPayment.agent = Value(cpayment.agentId)

C11_OfferRoundTrip ==
    opc = "parsed" =>
        /\ Property(offerDetails, "amount") = Value(Value(offer.amount))
        /\ Property(offerDetails, "currency") = Value(offer.currency)
        /\ Property(offerDetails, "acceptedMethods") = Value(offer.methods)
        /\ Property(offerDetails, "purpose") = Value(Value(offer.purpose))
        /\ Property(offerDetails, "expiresAt") = Value(DateOf(offer.expires))

\* The spend counters change only with a committed payment: dailySpent only in
\* an executePayment that ends in PaymentExecuted, total_cost only with a
\* successful paid attempt, each by the amount paid.
C12_SpendStep ==
    /\ dailySpent' # dailySpent =>
          \E n \in Negotiations :
              /\ noutcome[n] = "none" /\ noutcome'[n] = "PaymentExecuted"
              /\ dailySpent' = [dailySpent EXCEPT ![agent] = @ + ntransaction[n].amount]
    /\ total_cost' # total_cost =>
          /\ Len(payment_attempts') = Len(payment_attempts) + 1
          /\ payment_attempts'[Len(payment_attempts')].status = "success"
          /\ total_cost' = total_cost + payment_attempts'[Len(payment_attempts')].amount

\* C12 as stated: no counter, the rate limiter's request count included, changes
\* without a committed payment: an evaluation, a denial and an unpaid attempt
\* leave every counter as it was.
C12_CountersOnlyOnCommit ==
    [][ /\ C12_SpendStep
        /\ \A key \in LimitKeys : LimitCount(limits', key) = LimitCount(limits, key) ]_vars

C12_LimiterStep ==
    /\ \A key \in LimitKeys :
          LimitCount(limits', key) # LimitCount(limits, key) =>
              lcalls' = lcalls + 1 /\ lkey' = key /\ lresult'.allowed
    /\ (lcalls' # lcalls /\ lresult'.allowed) =>
          \/ LimitCount(limits', lkey') = LimitCount(limits, lkey') + 1
          \/ LimitCount(limits', lkey') = 1
    /\ (lcalls' # lcalls /\ ~lresult'.allowed) =>
          \A key \in LimitKeys : LimitCount(limits', key) = LimitCount(limits, key)

\* C12 amended: the spend counters change only when a payment is committed
\* (validateTransaction, a denial, a reverted executePayment and a failed attempt
\* leave them unchanged), while the rate limiter counts requests: every allowed
\* checkAndUpdateLimit adds one to the count of its key (from 0 in a new window),
\* whether or not a payment follows, and a refused one leaves every count
\* unchanged.
C12_SpendOnCommitRequestsCounted == [][C12_SpendStep /\ C12_LimiterStep]_vars

\* A request refused after the requests before it were counted up to the limit.
C12_Witness ==
    /\ lcalls > DefaultMaxRequests
    /\ ~lresult.allowed
    /\ LimitCount(limits, lkey) = DefaultMaxRequests

\* The error of the violated spending limit that checkSpendingLimits reports.
C13_SpendingErrors(n) ==
    IF ntransaction[n].amount > perTransactionLimit
       THEN {"Transaction exceeds per-transaction limit"}
       ELSE IF currentSpend[n] + ntransaction[n].amount > dailyLimit
               THEN {"Transaction would exceed daily limit"}
               ELSE {}

\* The reason of the earliest violated check in the order allowlist, time window,
\* per-transaction limit, velocity limit, periodic limit (then any other check).
C13_EarliestViolated(n) ==
    IF ~allowlist[ntransaction[n].recipient] THEN "Recipient not allowed"
    ELSE IF "time" \in nfailing[n] THEN "time"
    ELSE IF ntransaction[n].amount > perTransactionLimit
         THEN "Transaction exceeds per-transaction limit"
    ELSE IF "velocity" \in nfailing[n] THEN "velocity"
    ELSE IF currentSpend[n] + ntransaction[n].amount > dailyLimit
         THEN "Transaction would exceed daily limit"
    ELSE "suspicious"

\* C13 as stated: a denied request carries a single reason, that of the earliest
\* violated check in the order allowlist, time window, per-transaction limit,
\* velocity limit, periodic limit.
C13_FirstFailureOnly ==
    \A n \in Negotiations :
        npc[n] = "denied" => validation[n].errors = {C13_EarliestViolated(n)}

C13_AllFailuresReported ==
    \A n \in Negotiations :
        npc[n] \in {"executePayment", "denied", "done"} =>
            /\ validation[n].errors = C13_SpendingErrors(n) \cup nfailing[n]
            /\ validation[n].valid = (validation[n].errors = {})
            /\ npc[n] = "denied" <=> ~validation[n].valid

C13_RevertStep ==
    \A n \in Negotiations :
        (npc[n] = "executePayment" /\ npc'[n] = "done") =>
            IF dailySpent[agent] + ntransaction[n].amount > dailyLimits[agent]
               THEN noutcome'[n] = "Daily limit exceeded"
               ELSE IF ~allowlist[ntransaction[n].recipient]
                       THEN noutcome'[n] = "Recipient not allowed"
                       ELSE noutcome'[n] \in {"Payment failed", "PaymentExecuted"}

\* C13 amended: validateTransaction evaluates all its checks and returns the error
\* of every failed one, not only the first; of the two spending limits the
\* per-transaction limit is tested first and a request over both gets only its
\* error; executePayment stops at its first failing condition in the order daily
\* limit, allowlist, transfer, so a request over the daily limit to a recipient
\* not on the allowlist reverts with "Daily limit exceeded".
C13_ChecksAndTheirOrder == []C13_AllFailuresReported /\ [][C13_RevertStep]_vars

\* A request over the per-transaction limit and over the daily limit, made outside
\* the allowed time: denied with the per-transaction error and the time error.
C13_Witness ==
    \E n \in Negotiations :
        /\ npc[n] = "denied"
        /\ ntransaction[n].amount > perTransactionLimit
        /\ currentSpend[n] + ntransaction[n].amount > dailyLimit
        /\ "time" \in nfailing[n]
        /\ validation[n].errors = {"Transaction exceeds per-transaction limit", "time"}

C14_State ==
    \A n \in Negotiations :
        /\ npc[n] \notin {"idle", "validateTransaction"} =>
              /\ ntransaction[n].amount > perTransactionLimit =>
                    (validation[n].requiresApproval /\ ~validation[n].valid)
              /\ ntransaction[n].amount <= perTransactionLimit =>
                    (~validation[n].requiresApproval /\ approval[n] = "none")
        /\ (npc[n] \in {"executePayment", "done"}
               /\ ntransaction[n].amount > perTransactionLimit) => approval[n] = "granted"
        /\ npc[n] = "awaiting_approval" => (approval[n] = "pending" /\ noutcome[n] = "none")
        /\ approval[n] \in {"pending", "refused"} => noutcome[n] = "none"

C14_Step ==
    \A n \in Negotiations :
        /\ noutcome'[n] # noutcome[n] => approval[n] \in {"none", "granted"}
        /\ (npc[n] = "awaiting_approval" /\ npc'[n] # npc[n]) =>
              approval'[n] \in {"granted", "refused"}

C15_Rank(node) ==
    CASE node = "validate_request" -> 0
      [] node = "attempt_payment"  -> 1
      [] node = "handle_failure"   -> 2
      [] node \in {"retry_with_backoff", "try_alternative", "use_fallback"} -> 3
      [] node \in {"complete_task", "final_failure"} -> 4
      [] OTHER -> 5

C15_Step ==
    retryVars' # retryVars =>
        /\ wnode # "END"
        /\ \/ C15_Rank(wnode') > C15_Rank(wnode)
           \/ /\ wnode \in {"retry_with_backoff", "try_alternative", "use_fallback"}
              /\ wnode' = "attempt_payment"
        /\ wnode \in {"complete_task", "final_failure"} => wnode' = "END"

C17_DecisionNodes == {"retry_with_backoff", "try_alternative", "use_fallback"}

\* C17 as stated: every attempt and every retry or fallback decision adds an entry
\* to the log, and the log only grows.
C17_EveryDecisionLogged ==
    [][ /\ Len(payment_attempts') >= Len(payment_attempts)
        /\ (wnode \in C17_DecisionNodes \cup {"attempt_payment"} /\ wnode' # wnode) =>
              Len(payment_attempts') = Len(payment_attempts) + 1 ]_vars

C17_Step ==
    /\ Len(payment_attempts') \in {Len(payment_attempts), Len(payment_attempts) + 1}
    /\ SubSeq(payment_attempts', 1, Len(payment_attempts)) = payment_attempts
    /\ (wnode = "attempt_payment" /\ wnode' # wnode) =>
          /\ Len(payment_attempts') = Len(payment_attempts) + 1
          /\ payment_attempts'[Len(payment_attempts')].type = "attempt"
          /\ payment_attempts'[Len(payment_attempts')].service = current_service
          /\ payment_attempts'[Len(payment_attempts')].status = "failed" =>
                payment_attempts'[Len(payment_attempts')].error_code \in ErrorCodes
    /\ (wnode # "validate_request" /\ current_service' # current_service) =>
          /\ Len(payment_attempts') = Len(payment_attempts) + 1
          /\ payment_attempts'[Len(payment_attempts')] =
                [type |-> "service_switch", from |-> current_service,
                 to |-> current_service', reason |-> "payment_failure"]
    /\ wnode \in {"retry_with_backoff", "use_fallback", "handle_failure",
                   "complete_task", "final_failure", "END"} =>
          payment_attempts' = payment_attempts

C17_State ==
    wnode = "END" => completion_summary.attempts = Len(payment_attempts)

\* C17 amended: every attempt, with its target and the error code of a failure,
\* and every switch to another target is appended to the log; a backoff retry
\* and the use of the final fallback add no entry of their own; the log only
\* grows, and the terminal result is given with the full log, so that each
\* target tried and each intermediate failure appears in it.
C17_AttemptsAndSwitchesLogged == []C17_State /\ [][C17_Step]_vars

\* A finished request whose log holds a failed attempt, a service switch after it
\* and an attempt retried after a backoff.
C17_Witness ==
    /\ wnode = "END"
    /\ Len(sleeps) > 0
    /\ \E i \in 2..Len(payment_attempts) :
          /\ payment_attempts[i].type = "service_switch"
          /\ payment_attempts[i - 1].type = "attempt"
          /\ payment_attempts[i - 1].status = "failed"
    /\ completion_summary.attempts = Len(payment_attempts)

\* C18: a failure with POLICY_VIOLATION or ALREADY_USED ends the whole request in
\* failure: no attempt, retry or switch to a fallback target follows it.
C18_TerminalErrorsEndRequest ==
    \A i \in 1..Len(payment_attempts) :
        (payment_attempts[i].type = "attempt"
           /\ payment_attempts[i].error_code \in {"POLICY_VIOLATION", "ALREADY_USED"})
        => /\ i = Len(payment_attempts)
           /\ wnode \in {"handle_failure", "final_failure", "END"}
           /\ wnode = "END" => ~completion_summary.success

\* C19: a failure with INVALID_FORMAT or PAYMENT_EXPIRED while a fallback target
\* remains is not retried on the same target and does not end the request: the
\* orchestrator goes on to switch to the next target.
C19_FormatErrorsFallBack ==
    (/\ payment_attempts # <<>>
     /\ LastAttempt.type = "attempt"
     /\ LastAttempt.error_code \in {"INVALID_FORMAT", "PAYMENT_EXPIRED"}
     /\ service_index(LastAttempt.service) < Len(fallback_services))
    => wnode \in {"handle_failure", "try_alternative"}

C22_LaterCommit(p) ==
    /\ vpc[p] # "idle"
    /\ vpayment[p].receipt \in usedAtCall[p]
    /\ vpayment[p].signatureValid

\* No step removes a recorded receipt, and a call that found its receipt recorded
\* records nothing and throws.
C22_Step ==
    /\ usedPayments \subseteq usedPayments'
    /\ \A p \in Verifiers :
         (C22_LaterCommit(p) /\ vpc[p] # "returned" /\ vpc'[p] = "returned") =>
            /\ vresult'[p] = "Payment already consumed"
            /\ usedPayments' = usedPayments

\* A later commit never returns valid, whatever the other calls did meanwhile.
C22_State ==
    \A p \in Verifiers :
        /\ usedAtCall[p] \subseteq usedPayments
        /\ (C22_LaterCommit(p) /\ vpc[p] = "returned") =>
              vresult[p] = "Payment already consumed"

\* C22: a receipt recorded by markPaymentUsed is never removed, and every
\* verifyPayment call that arrives after the receipt of its proof was recorded,
\* whatever other calls ran in between, is rejected with 'Payment already
\* consumed' (PAYMENT_ALREADY_USED) and records nothing.
C22_ReceiptsKept == []C22_State /\ [][C22_Step]_vars

\* A proof presented again after its receipt was recorded, and rejected.
C22_Witness ==
    \E p, q \in Verifiers :
        /\ p # q
        /\ vresult[q] = "valid"
        /\ vpayment[p] = vpayment[q]
        /\ C22_LaterCommit(p)
        /\ vresult[p] = "Payment already consumed"

\* What evaluate(offer, intent) is to answer for the offer handled, for a caller
\* willing to pay at most ceiling.
C23_Expected(ceiling) ==
    IF paymentDetails.expiresAt <= hnow THEN "PAYMENT_EXPIRED"
    ELSE IF paymentDetails.amount > ceiling THEN "AMOUNT_EXCEEDS_CEILING"
    ELSE IF paymentDetails.acceptedMethods \cap SupportedMethods = {} THEN "UNSUPPORTED_METHOD"
    ELSE "Accept"

\* C23: the offer handled is accepted (processPayment is called for it) exactly
\* when it is unexpired, its amount is within the caller's ceiling and one of its
\* methods is supported; otherwise the handler ends with PAYMENT_EXPIRED,
\* AMOUNT_EXCEEDS_CEILING or UNSUPPORTED_METHOD.
C23_EvaluateAcceptsExactly ==
    hpc # "idle" =>
        \A ceiling \in {r.amount : r \in Responses} :
            /\ hprocessed.called <=> C23_Expected(ceiling) = "Accept"
            /\ (hpc = "returned" /\ C23_Expected(ceiling) # "Accept") =>
                  hresult = C23_Expected(ceiling)

\* The currency a Payment-Amount header value names, or null.
C24_Currency(value) ==
    LET words == Words(value) IN
      ParamsGet([k \in 1..Len(words) |-> KeyValue(words[k])], Str_currency)

\* A response whose amount, currency or expiry is missing or malformed.
C24_Malformed(headers) ==
    \/ parseAmount(headers.PaymentAmount).isNull
    \/ C24_Currency(headers.PaymentAmount).isNull
    \/ "PaymentExpires" \notin DOMAIN headers
    \/ ~headers.PaymentExpires.date

\* C24: for a response whose amount, currency or expiry is missing or malformed
\* the parser returns the error value INVALID_FORMAT, and for a response that
\* lacks only the purpose it returns an offer whose purpose is absent.
C24_MalformedIsInvalidFormat ==
    opc = "parsed_received" =>
        IF C24_Malformed(offerHeaders)
           THEN /\ "error" \in DOMAIN offerDetails
                /\ offerDetails.error = "INVALID_FORMAT"
           ELSE /\ "error" \notin DOMAIN offerDetails
                /\ "PaymentPurpose" \notin DOMAIN offerHeaders => offerDetails.purpose = Null

\* Every check of one evaluation was given the same PolicySet, the one
\* getPolicies returned, which is one of the sets stored whole.
C25_State ==
    \A e \in Evaluations :
        /\ upc[e] \in {"Promise.all", "returned"} => upolicies[e] \in PolicySets
        /\ \A c \in Checks : ugiven[e][c] \in {NoPolicies, upolicies[e]}
        /\ upc[e] = "returned" => \A c \in Checks : ugiven[e][c] = upolicies[e]

\* The set an evaluation works with is the one stored when it read it, and no
\* later update changes it.
C25_Step ==
    \A e \in Evaluations :
        /\ (upc[e] = "getPolicies" /\ upc'[e] # upc[e]) => upolicies'[e] = storedPolicies
        /\ upc[e] \in {"Promise.all", "returned"} => upolicies'[e] = upolicies[e]

\* C25: when the agent's PolicySet is replaced while validateTransaction calls for
\* the agent are running, every call evaluates all four of its checks against one
\* PolicySet, the complete old one or the complete new one, never some checks with
\* the old and some with the new.
C25_NoMixedPolicies == []C25_State /\ [][C25_Step]_vars

\* The policies were replaced between the reads of two evaluations: one has
\* returned with every check on the old set, the other is running on the new one.
C25_Witness ==
    \E e \in Evaluations :
        /\ upc[e] = "returned"
        /\ upolicies[e] = OldPolicies
        /\ storedPolicies = NewPolicies
        /\ \E f \in Evaluations :
             /\ upc[f] = "Promise.all"
             /\ upolicies[f] = NewPolicies
             /\ \E c, d \in Checks : ugiven[f][c] = NewPolicies /\ ugiven[f][d] = NoPolicies

\* An executeTransaction step of a signer that got as far as the daily limit.
C26_Evaluated ==
    /\ <<sw_sender, sw_value, sw_outcome, sw_dailySpent, sw_lastResetTime>>'
          # <<sw_sender, sw_value, sw_outcome, sw_dailySpent, sw_lastResetTime>>
    /\ sw_timestamp' = sw_timestamp
    /\ signers[sw_sender']

\* C26: an executeTransaction of one principal changes only that principal's
\* counter, never the counter or the limit of another, and whether the
\* principal's counter is reset for the new day does not depend on what other
\* principals did: its transaction is refused for the daily limit exactly when its
\* own executed transactions of the day and the new value together exceed its limit.
C26_OnlyOwnCounter ==
    [][ C26_Evaluated =>
          /\ \A a \in Senders \ {sw_sender'} : sw_dailySpent'[a] = sw_dailySpent[a]
          /\ sw_outcome' = "Daily limit exceeded"
                <=> sw_spentToday[sw_sender'] + sw_value' > sw_dailyLimits[sw_sender'] ]_vars

\* C27: the daily counter restarts at the start of each day for every principal:
\* once a principal has an executed transaction in the current day, its counter
\* is the sum of its executed transactions of that day, whoever transacted first
\* in the day.
C27_CounterIsTodaysSpend ==
    \A a \in Senders :
        sw_spentToday[a] > 0 => sw_dailySpent[a] = sw_spentToday[a]

\* The current target is the last of the fallback list.
C28_AtLastTarget == service_index(current_service) = Len(fallback_services)

\* What the strategy nodes do to the target: backoff stays, the alternative is the
\* next entry, the fallback is the last entry.
C28_StrategyNodes ==
    /\ wnode = "retry_with_backoff" =>
          current_service' = current_service /\ wnode' = "attempt_payment"
    /\ wnode = "try_alternative" =>
          /\ service_index(current_service') = service_index(current_service) + 1
          /\ wnode' = "attempt_payment"
    /\ wnode = "use_fallback" =>
          /\ current_service' = fallback_services[Len(fallback_services)]
          /\ wnode' = "attempt_payment"

\* The failure handler on a network error and on a rate limit.
C28_BackoffCodes ==
    wnode = "handle_failure" =>
        /\ current_service' = current_service
        /\ LastAttempt.error_code = "NETWORK_ERROR" =>
              retry_strategy' = "EXPONENTIAL_BACKOFF" /\ wnode' = "retry_with_backoff"
        /\ LastAttempt.error_code = "RATE_LIMITED" =>
              retry_strategy' = "LINEAR_BACKOFF" /\ wnode' = "retry_with_backoff"

MaxRetryNumber == 13

\* min(2^k, 60) and min(5 * k, 60)
C29_Exponential(k) == IF 2 ^ k < 60 THEN 2 ^ k ELSE 60
C29_Linear(k) == IF 5 * k < 60 THEN 5 * k ELSE 60

\* retry_with_backoff sleeps the delay of the retry it announces, by its strategy.
C29_Step ==
    (wnode = "retry_with_backoff" /\ retryVars' # retryVars) =>
        /\ retry_strategy \in {"EXPONENTIAL_BACKOFF", "LINEAR_BACKOFF"}
        /\ retry_count' = retry_count + 1
        /\ sleeps' = Append(sleeps, IF retry_strategy = "EXPONENTIAL_BACKOFF"
                                       THEN C29_Exponential(retry_count')
                                       ELSE C29_Linear(retry_count'))

\* The delays as functions of the retry number (compared wherever the workflow is
\* about to sleep), and the delays slept.
C29_State ==
    /\ wnode = "retry_with_backoff" =>
          \A k \in 1..MaxRetryNumber :
              /\ backoff_delay("EXPONENTIAL_BACKOFF", k) = C29_Exponential(k)
              /\ backoff_delay("LINEAR_BACKOFF", k) = C29_Linear(k)
              /\ \A strategy \in {"EXPONENTIAL_BACKOFF", "LINEAR_BACKOFF"} :
                   /\ backoff_delay(strategy, k) <= backoff_delay(strategy, k + 1)
                   /\ backoff_delay(strategy, k) <= 60
    /\ \A i \in 1..Len(sleeps) : sleeps[i] <= 60
    /\ \A k \in 1..Len(rh_delays) :
         /\ rh_delays[k] = (IF 1000 * 2 ^ (k - 1) < 30000 THEN 1000 * 2 ^ (k - 1) ELSE 30000)
         /\ rh_delays[k] <= 30000
         /\ \A j \in 1..k : rh_delays[j] <= rh_delays[k]
    /\ rh_pc = "sleep" => Len(rh_delays) = rh_attempt

\* C29: the delay before retry number k is min(2^k, 60) seconds for exponential
\* and min(5 * k, 60) seconds for linear backoff in PaymentRetryWorkflow, and
\* min(1000 * 2^(k-1), 30000) ms in handlePaymentWithRetry; the delays do not
\* decrease as k grows and none exceeds its ceiling.
C29_BackoffDelays == []C29_State /\ [][C29_Step]_vars

\* handlePaymentWithRetry has slept six times, the sixth time at the ceiling.
C29_Witness ==
    /\ rh_pc = "sleep"
    /\ rh_attempt = 6
    /\ rh_delays = <<1000, 2000, 4000, 8000, 16000, 30000>>

\* A step of the two switching nodes resets the retry count; the target changes
\* only to the entry right after it in the fallback list.
C30_Step ==
    /\ (wnode \in {"try_alternative", "use_fallback"} /\ retryVars' # retryVars) =>
          retry_count' = 0
    /\ (current_service # "none" /\ current_service' # current_service) =>
          /\ wnode \in {"try_alternative", "use_fallback"}
          /\ service_index(current_service') = service_index(current_service) + 1
    /\ wnode = "try_alternative" => current_service' # current_service

\* C30: a switch of target moves to the entry right after the current one in the
\* fallback list and resets retry_count to 0; the index of the current target
\* never decreases during a request, and retry_count never exceeds max_retries.
C30_SwitchesForwardOnly == [](retry_count <= max_retries) /\ [][C30_Step]_vars

\* The first target was retried with backoff to the retry cap's last retry, then
\* the workflow switched to the second target with the count back at 0.
C30_Witness ==
    /\ wnode = "attempt_payment"
    /\ current_service = fallback_services[2]
    /\ retry_count = 0
    /\ max_retries = MaxRetries
    /\ Len(sleeps) = MaxRetries - 1
    /\ switches = 1

\* The calls made stay within the configured cap: handlePaymentWithRetry is at
\* its attempt-th call of paymentFn, robust_payment has made rp_calls calls.
C31_State ==
    /\ rh_pc \in {"paymentFn", "sleep", "returned"} => rh_attempt <= rh_maxAttempts
    /\ rp_calls <= rp_max_retries

\* An error that is not retryable is rethrown by the call that caught it.
C31_Step ==
    (rh_pc = "paymentFn" /\ rh_pc' # "returned" /\ ~isRetryableError(rh_lastError')) =>
        (rh_pc' = "thrown" /\ rh_attempt' = rh_attempt)

C31_Terminal ==
    /\ rh_pc = "paymentFn" ~> rh_pc \in {"returned", "thrown"}
    /\ rp_pc = "send_payment" ~>
          rp_pc \in {"returned_result", "failed_after_attempts", "max_retries_exceeded"}
    /\ rpa_pc = "pay_agent" ~> rpa_pc \in {"returned", "thrown"}

\* C31: network and timeout errors are retried up to the configured cap and then
\* are terminal: handlePaymentWithRetry calls paymentFn at most maxAttempts times
\* and rethrows an error that is not retryable at once, robust_payment calls
\* send_payment at most max_retries times, and each of the three helpers,
\* robustPayAgent under NETWORK_ERROR after NETWORK_ERROR included, ends with a
\* result or a failure.
C31_RetriesAreCapped == []C31_State /\ [][C31_Step]_vars /\ C31_Terminal

\* The part of C31 that is about the two helpers with a cap.
C31_CappedHelpers ==
    /\ []C31_State /\ [][C31_Step]_vars
    /\ rh_pc = "paymentFn" ~> rh_pc \in {"returned", "thrown"}
    /\ rp_pc = "send_payment" ~>
          rp_pc \in {"returned_result", "failed_after_attempts", "max_retries_exceeded"}

\* The attempts of a client that were allowed in the hour that starts at time t.
C32_AllowedInHour(c, t) ==
    SumOver(pr_allowed[c], {u \in HalfHours : t <= u /\ u < t + OneHour})

\* C32: for every client, checkRateLimit allows at most 10 attempts in any period
\* of one hour, and a client whose counted attempts are all an hour old (their
\* timers have fired) is counted from 0 again, so it is allowed.
C32_TenPerHour ==
    \A c \in Clients :
        /\ \A t \in HalfHours : C32_AllowedInHour(c, t) <= MaxPaymentAttempts
        /\ (\A t \in HalfHours : pr_timers[c][t] = 0) => pr_attempts[c] = 0

\* The second half of C32 alone.
C32_AllowedAgainAfterAnHour ==
    \A c \in Clients : (\A t \in HalfHours : pr_timers[c][t] = 0) => pr_attempts[c] = 0

C33_State ==
    /\ \A key \in DOMAIN limits :
          /\ 0 <= limits[key].count
          /\ limits[key].count <= limits[key].maxRequests
    /\ \A key \in LimitKeys, w \in Windows : lallowed[key][w] <= DefaultMaxRequests
    /\ (lcalls > 0 /\ lresult.allowed) =>
          lresult.remainingRequests = limits[lkey].maxRequests - limits[lkey].count

C33_Step ==
    lcalls' = lcalls + 1 =>
        /\ ~lresult'.allowed =>
              \A key \in LimitKeys : LimitCount(limits', key) = LimitCount(limits, key)
        /\ (lresult'.allowed /\ lallowed[lkey'][WindowStart(lnow')] = 0) =>
              limits'[lkey'].count = 1
        /\ lresult'.allowed =>
              limits'[lkey'].count = lallowed'[lkey'][WindowStart(lnow')]

\* C33: for every key (agent and operation), checkAndUpdateLimit keeps
\* 0 <= count <= maxRequests, allows at most maxRequests calls in each fixed
\* window, leaves count unchanged on a refused call, returns remainingRequests =
\* maxRequests - count on an allowed call, and counts the first call of each new
\* window from 0 (count is 1 after it).
C33_FixedWindowCounter == []C33_State /\ [][C33_Step]_vars

\* A key used up its first window, was refused in it, and was allowed again by
\* the first call of the next window, counted from 0.
C33_Witness ==
    /\ lcalls = DefaultMaxRequests + 2
    /\ lresult.allowed
    /\ lallowed[lkey][0] = DefaultMaxRequests
    /\ WindowStart(lnow) = DefaultWindowMs
    /\ limits[lkey].count = 1
    /\ lresult.remainingRequests = DefaultMaxRequests - 1

\* C34: next() runs only for a request whose X-Payment header passed
\* validatePaymentHeader; a request without the header is answered 402 with
\* Accept-Payment, Payment-Amount, Payment-Purpose and Payment-Expires, a request
\* whose header is not valid is answered 400 with the code of the validation, and
\* neither reaches the handler.
C34_HandlerOnlyAfterValidPayment ==
    /\ mw_next => (~mw_paymentHeader.isNull /\ mw_result.valid)
    /\ (mw_pc = "responded" /\ mw_paymentHeader.isNull) =>
          /\ mw_response.status = 402
          /\ mw_response.headers.AcceptPayment # <<>>
          /\ mw_response.headers.PaymentAmount # <<>>
          /\ mw_response.headers.PaymentPurpose # ""
          /\ mw_response.headers.PaymentExpires.date
          /\ ~mw_next
    /\ (mw_pc = "responded" /\ mw_result.code # "none") =>
          /\ ~mw_result.valid
          /\ mw_response.status = 400
          /\ mw_response.code = mw_result.code
          /\ ~mw_next
    /\ (mw_pc # "idle" /\ mw_pc # "validatePaymentHeader" /\ ~mw_result.valid) => ~mw_next

\* A request with a formatted X-Payment header that the validation refused as not
\* found: 400 with that code, the handler not run.
C34_Witness ==
    /\ mw_pc = "responded"
    /\ mw_paymentHeader \in {Value(formatPaymentHeader(payment)) : payment \in PaymentResults}
    /\ mw_result.code = "PAYMENT_NOT_FOUND"
    /\ mw_response.status = 400
    /\ ~mw_next

\* No request of the model reaches the handler: parsePaymentHeader never yields
\* a payment type, so verifyPaymentOnChain refuses every header.
C34_HandlerNeverRuns == ~mw_next

\* The timers of the subscription that are pending, and the payments it has
\* initiated.
C35_PendingTimers == SumOver(sub_timers, DueTimes)
C36_Initiated == SumOver(sub_initiated, Instants)

\* C35: after start(), at any time at most one next-payment timer is pending, and
\* one payment, not more, is initiated per interval, however many intervals pass
\* with payments that succeed.
C35_OneTimerOnePayment ==
    /\ C35_PendingTimers <= 1
    /\ \A t \in Instants : sub_initiated[t] <= 1

C36_Step ==
    /\ C36_Initiated' # C36_Initiated =>
          (sub_isActive' /\ C36_Initiated' = C36_Initiated + 1)
    /\ (~sub_isActive /\ ~sub_isActive') =>
          /\ C36_Initiated' = C36_Initiated
          /\ sub_inflight' <= sub_inflight
          /\ C35_PendingTimers' <= C35_PendingTimers

\* C36: once stop() has returned (isActive is false until start() is called
\* again), the subscription initiates no payment and sets no timer: a timer that
\* was pending at the stop pays nothing when it fires, an awaited payment that
\* settles later schedules nothing.
C36_NoPaymentAfterStop == [][C36_Step]_vars

\* Started once and stopped; a timer that the stop did not cancel has fired since
\* and paid nothing, and nothing is pending any more.
C36_Witness ==
    /\ sub_starts = 1
    /\ ~sub_isActive
    /\ sub_skipped >= 1
    /\ sub_inflight = 0
    /\ C35_PendingTimers = 0
    /\ C36_Initiated = 1

\* C37: each milestone of a contract is paid out at most once and only with the
\* client's approval; a release of a milestone that is already completed makes
\* no payment.
C37_MilestonePaidOnce ==
    /\ \A i \in MilestoneIndexes : mk_releases[i] <= 1
    /\ mk_last.outcome = "paid" => mk_last.clientApproval

\* The approval half of C37 alone.
C37_OnlyWithApproval == mk_last.outcome = "paid" => mk_last.clientApproval

\* C38: whatever milestones are released, the marketplace never pays the provider
\* more than the escrow it collected from the client for the contract.
C38_PaidOutWithinEscrow == mk_paidOut <= mk_escrowCollected
====
